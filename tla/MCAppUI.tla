------------------------------ MODULE MCAppUI ------------------------------
(* AppUI on hosts 1, 2 and 3: told apart by name, tied in MaxJobs, and all *)
(* but the first of them found by the search for r.  Host 2 may report     *)
(* itself under another name, which r does not find, with another MaxJobs  *)
(* and one attribute more; on host 3 a job comes and goes.                 *)
EXTENDS AppUI

MCColumns == <<"Name", "Current", "MaxJobs">>
As(name, max, cur, attrs, text) ==
    [cur |-> cur, attrs |-> attrs, key |-> [Name |-> name, MaxJobs |-> max], text |-> text]
MCLook == << { As(1, 4, 0, 1, <<>>) },
             { As(2, 4, 0, 1, <<"r">>), As(4, 5, 0, 2, <<>>) },
             { As(3, 4, 0, 1, <<"r">>), As(3, 4, 1, 1, <<"r">>) } >>
=============================================================================
