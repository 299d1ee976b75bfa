------------------------------ MODULE MCWizard ------------------------------
(* Small instances of Wizard for TLC. *)
EXTENDS Wizard

Explicit == [Blank EXCEPT !.upstream = "up", !.bindings = "internal", !.cert = "c", !.key = "k"]
Taken    == [Blank EXCEPT !.name = "b", !.url = "taken", !.upstream = "up", !.bindings = "public"]

OneTab  == {1}
TwoTabs == {1, 2}
FewDrafts == {Explicit, Taken}

=============================================================================
