---------------------------- MODULE MCSettingsPage ------------------------------
(* Values for the run of SettingsPage: two settings of two values, one tag to find *)
(* and one to make.                                                                *)
EXTENDS SettingsPage, TLC

CONSTANTS focus, sound, off, on, t1, t2, n1, n2, c1, c2

AllOff == [f \in Fields |-> off]

\* A new account, and one that keeps the sound on.
NewOrChanged == {NoRow, [AllOff EXCEPT ![sound] = on]}

OneTag == {[id \in TagIds |-> IF id = t1 THEN [name |-> n1, color |-> c1] ELSE NoTag]}

=====
