----------------------- MODULE MCSchedulerConnection -----------------------
(* SchedulerConnection with a message of every shape, datagrams at every   *)
(* edge, and peers below, at, between and above the two versions.          *)
EXTENDS SchedulerConnection

Of(kind, fields) == [kind |-> kind, fields |-> fields]
MCMessages ==
    { Of("MonGetCs", [filename |-> <<97>>, lang |-> 1, job_id |-> 1, client_id |-> 2]),
      Of("MonJobBegin", [job_id |-> 1, start_time |-> 2, host_id |-> 3]),
      Of("MonLocalJobBegin", [host_id |-> 1, job_id |-> 2, start_time |-> 3, file |-> <<97>>]),
      Of("MonStats", [host_id |-> 258, statmsg |-> <<97, 10>>]),
      Of("JobLocalDone", [job_id |-> 1]),
      Of("MonJobDone", [f \in {FieldsRead.MonJobDone[i] : i \in 1..11} |->
                            CHOOSE i \in 1..11 : Fields.MonJobDone[i] = f]),
      Of("Ping", <<>>), Of("MonLogin", <<>>), Of("End", <<>>) }

MCRevised == {m \in MCMessages : m.kind \in {"MonGetCs", "MonLocalJobBegin"}}

Datagram0 == [len |-> 21, first |-> 47, version |-> 21, name |-> "ICECREAM", nul |-> 8]
MCReply ==
    { Datagram0,
      [Datagram0 EXCEPT !.len = 12],
      [Datagram0 EXCEPT !.first = 2],
      [Datagram0 EXCEPT !.version = 20],
      [Datagram0 EXCEPT !.name = "OTHER", !.nul = 5],
      [Datagram0 EXCEPT !.name = "", !.nul = 255, !.len = BROAD_BUFLEN] }
=============================================================================
