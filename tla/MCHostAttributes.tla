-------------------------- MODULE MCHostAttributes --------------------------
(* HostAttributes on one host and reports of up to three lines.            *)
EXTENDS HostAttributes, TLC

Lines ==
    { <<"Name", "a">>, <<"Name", "b">>, <<"MaxJobs", "4">>, <<"MaxJobs", "-1">>,
      <<"Speed", "100">>, <<"Speed", "inf">>, <<"Speed", "-3">>,
      <<"NoRemote", "true">>, <<"NoRemote", "no">>, <<"IP", "fe80", "1">>,
      <<"Load", "7">>, <<"garbage">> }
Short == {<<>>} \cup {<<l>> : l \in Lines} \cup {<<k, l>> : k, l \in Lines}
MCReport == Short \cup {<<<<"Name", "a">>>> \o r : r \in Short}

MCPart == UNION {ToSet(l) : l \in Lines}
MCIntOf == (<<"4">> :> 4) @@ (<<"-1">> :> -1) @@ (<<"100">> :> 100) @@ (<<"7">> :> 7)
MCFloatOf == MCIntOf @@ (<<"-3">> :> -3) @@ (<<"inf">> :> 1000)
=============================================================================
