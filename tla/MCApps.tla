------------------------------- MODULE MCApps -------------------------------
(* Instances of Apps for TLC. *)
EXTENDS Apps

AllKeys == Calls \X (0..MaxPoolSize)

Text(kind, n) == [kind |-> kind, n |-> n]
Off == Text("empty", 0)
One == Text("decimal", 1)
Two == Text("decimal", 2)
Input(named, size, min, refill, floor) ==
    [named |-> named, size |-> size, min |-> min, refill |-> refill, floor |-> floor]

\* Texts that Go and the database read differently.
Odd == {Text("dbonly", 2), Text("minus", 1), Text("nan", 0), Text("long", 2), Text("junk", 1)}

\* Without a name; with pools around the limits; with amounts that are left out
\* or in the wrong order; with a decimal on either side of each odd text, and
\* with odd texts only.
SomeInputs ==
    {Input(FALSE, 1, Off, Off, Off)}
    \union {Input(TRUE, n, One, Two, One) : n \in {MinPoolSize - 1, MinPoolSize, MaxPoolSize, MaxPoolSize + 1}}
    \union {Input(TRUE, 1, p[1], p[2], Off) : p \in
              {<<Off, Off>>, <<One, One>>, <<One, Off>>, <<Off, One>>, <<Text("dbonly", 2), Text("dbonly", 1)>>}
              \union ({One} \X Odd) \union (Odd \X {One})}
    \union {Input(TRUE, 1, Text("minus", 1), Text("decimal", 0), Text("nan", 0))}

=============================================================================
