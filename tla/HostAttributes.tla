--------------------------- MODULE HostAttributes ---------------------------
(***************************************************************************)
(* What the table says of a host and where it comes from: the text of a    *)
(* MonStats message, cut into pairs by parse_stats (src/src/monitor.rs),   *)
(* and the fields and the list that update_attrs keeps of them             *)
(* (src/src/model.rs).  A row is made of the fields, the details under it  *)
(* of the list, and the log has a line for every report (src/src/main.rs). *)
(*                                                                         *)
(* A line of a report is the sequence of its parts between colons; a text  *)
(* without a colon has one.                                                *)
(***************************************************************************)
EXTENDS Integers, Sequences, SequencesExt

CONSTANTS
    HostId,   \* the ids of hosts
    Part,     \* what a line has between its colons
    Report,   \* the texts a daemon's statistics can have
    U32,      \* how many values a u32 has
    IntOf,    \* the integer a text is, for those that are one
    FloatOf,  \* the whole part of the number a text is, as an f64
    Absent    \* a host that is not in the map

Field == {"Name", "MaxJobs", "Speed", "Platform", "NoRemote", "IP"}

Word == Seq(Part)                                  \* what is between two colons, or more
Pair == [ key : Part, value : Word ]
Fields ==
    [ Name : Word, MaxJobs : 0..(U32 - 1), Speed : 0..(U32 - 1), Platform : Word,
      NoRemote : BOOLEAN, IP : Word ]
Host == [ fields : Fields, attrs : Seq(Pair) ]

ASSUME AttributesAssumption ==
    /\ U32 \in Nat \ {0}
    /\ Absent \notin Host
    /\ \A r \in Report : r \in Seq(Seq(Part)) /\ \A i \in DOMAIN r : r[i] # <<>>
    /\ \A v \in DOMAIN IntOf : IntOf[v] \in Int
    /\ \A v \in DOMAIN FloatOf : FloatOf[v] \in Int

VARIABLES
    hosts,  \* the fields and the attrs of every Host
    log,    \* the last line of log_messages that tells of a host
    last    \* history: what each key last said since the host was registered

vars == <<hosts, log, last>>

-----------------------------------------------------------------------------
(* Lines without a colon are dropped, the others split at the first one.   *)
PushLine(pairs, l) ==
    IF Len(l) > 1 THEN Append(pairs, [key |-> Head(l), value |-> Tail(l)]) ELSE pairs
parse_stats(text) == FoldLeft(PushLine, <<>>, text)

(* Mutant: an f64 kept as it is.                                           *)
ParseF64AsU32_Kept(v) == IF v \in DOMAIN FloatOf THEN FloatOf[v] ELSE 0

(* v.parse::<u32>().unwrap_or(0), and v.parse::<f64>().unwrap_or(0.0) as   *)
(* u32, which saturates.                                                   *)
ParseU32(v) == IF v \in DOMAIN IntOf /\ IntOf[v] \in 0..(U32 - 1) THEN IntOf[v] ELSE 0
ParseF64AsU32(v) ==
    IF v \notin DOMAIN FloatOf \/ FloatOf[v] < 0 THEN 0
    ELSE IF FloatOf[v] >= U32 THEN U32 - 1 ELSE FloatOf[v]

(* What a value is to the field of its key.                                *)
Parsed(key, v) ==
    CASE key = "MaxJobs" -> ParseU32(v)
      [] key = "Speed" -> ParseF64AsU32(v)
      [] key = "NoRemote" -> v \in {<<"true">>, <<"1">>}
      [] OTHER -> v

(* Host::new.                                                              *)
Default ==
    [ Name |-> <<>>, MaxJobs |-> 0, Speed |-> 0, Platform |-> <<>>,
      NoRemote |-> FALSE, IP |-> <<>> ]
NewHost == [ fields |-> Default, attrs |-> <<>> ]

Has(attrs, key) == \E i \in DOMAIN attrs : attrs[i].key = key

SetField(fields, p) ==
    IF p.key \notin Field THEN fields ELSE [fields EXCEPT ![p.key] = Parsed(p.key, p.value)]

(* Mutant: what a report does not mention goes back to its default.        *)
update_attrs_Resets(host, attrs) ==
    [ fields |-> FoldLeft(SetField, Default, attrs),
      attrs |-> attrs ]
(* Mutant: the list grows.                                                 *)
update_attrs_Appends(host, attrs) ==
    [ fields |-> FoldLeft(SetField, host.fields, attrs),
      attrs |-> attrs \o SelectSeq(host.attrs, LAMBDA p : Has(attrs, p.key)) ]

(* Pair after pair sets its field; the list is replaced.                   *)
update_attrs(host, attrs) ==
    [ fields |-> FoldLeft(SetField, host.fields, attrs),
      attrs |-> attrs ]

(* Mutant: a report without a name is one like any other.                  *)
ApplyHostStats_Keeps(host, attrs) ==
    update_attrs(IF host = Absent THEN NewHost ELSE host, attrs)

(* The arm of apply_event.                                                 *)
ApplyHostStats(host, attrs) ==
    IF ~Has(attrs, "Name") THEN Absent
    ELSE update_attrs(IF host = Absent THEN NewHost ELSE host, attrs)

(* format_log: the first "Name" of the list, or "?".                       *)
Unnamed == <<"?">>
format_log(h, attrs) ==
    [ host |-> h,
      name |-> IF Has(attrs, "Name")
               THEN attrs[Min({i \in DOMAIN attrs : attrs[i].key = "Name"})].value
               ELSE Unnamed ]

-----------------------------------------------------------------------------
Init ==
    /\ hosts = [h \in HostId |-> Absent]
    /\ log = <<>>
    /\ last = [h \in HostId |-> <<>>]

(* A MonStats message reaches process_event.                               *)
HostStats(h, text) ==
    LET attrs == parse_stats(text)
        lines(k) == {i \in DOMAIN text : Len(text[i]) > 1 /\ Head(text[i]) = k}
    IN  /\ hosts' = [hosts EXCEPT ![h] = ApplyHostStats(@, attrs)]
        /\ log' = <<format_log(h, attrs)>>
        /\ last' = [last EXCEPT ![h] =
               IF lines("Name") = {} THEN <<>>
               ELSE [k \in {f \in Field : lines(f) # {}} \cup DOMAIN @ |->
                        IF lines(k) # {} THEN Tail(text[Max(lines(k))]) ELSE @[k]]]

Disconnected ==
    /\ hosts' = [h \in HostId |-> Absent]
    /\ last' = [h \in HostId |-> <<>>]
    /\ UNCHANGED log

Next == (\E h \in HostId, text \in Report : HostStats(h, text)) \/ Disconnected

Spec == Init /\ [][Next]_vars

-----------------------------------------------------------------------------
(* The numbers of a row are u32, whatever the report says (model.rs:77-80).*)
TypeOK ==
    /\ hosts \in [HostId -> Host \cup {Absent}]
    /\ \A h \in HostId : DOMAIN last[h] \subseteq Field

(* Every column of a row says what the host said last in that respect,     *)
(* since it came: a report that leaves a key out changes nothing, one that *)
(* gives it twice counts with the second, a value keeps its own colons,    *)
(* and a host that was dropped and came back starts anew (monitor.rs:13-22,*)
(* model.rs:73-90, 156-168).                                               *)
RowIsLatestWord ==
    \A h \in HostId : hosts[h] # Absent =>
        \A k \in Field :
            hosts[h].fields[k] =
                IF k \in DOMAIN last[h] THEN Parsed(k, last[h][k]) ELSE Default[k]

(* An expanded row is not contradicted by the details under it: the last   *)
(* of them with a column's key is what the column shows, although the list *)
(* is replaced with each report and the columns are not (model.rs:73-90,   *)
(* draw_table's attrs, ui.rs:421-431).                                     *)
DetailsExplainRow ==
    \A h \in HostId : hosts[h] # Absent =>
        \A i \in DOMAIN hosts[h].attrs :
            LET p == hosts[h].attrs[i] IN
            p.key \in Field /\ ~Has(SubSeq(hosts[h].attrs, i + 1, Len(hosts[h].attrs)), p.key)
                => hosts[h].fields[p.key] = Parsed(p.key, p.value)

(* The log and the table are of one mind about who is gone: the line of a  *)
(* report has no name exactly if the report takes its host off the table   *)
(* (format_log, main.rs:186-192; model.rs:157-161).                        *)
LogTellsWhoIsGone ==
    [][log' # log => (log'[1].name = Unnamed <=> hosts'[log'[1].host] = Absent)]_vars
=============================================================================
