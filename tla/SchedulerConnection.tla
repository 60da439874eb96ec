------------------------ MODULE SchedulerConnection ------------------------
(***************************************************************************)
(* One attempt after another to find a scheduler, to agree with it on a    *)
(* protocol version and to read its messages: discover_scheduler           *)
(* (discovery.rs), TcpSchedulerConnection (connection.rs) and the loop     *)
(* around them (monitor.rs).  The connection is two streams of bytes; the  *)
(* peer may close them anywhere, also within an integer.                   *)
(*                                                                         *)
(* The attempt's socket and streams are its own: they are dropped with it, *)
(* and nothing sent to an earlier one can be read from a later one.        *)
(***************************************************************************)
EXTENDS Wire, FiniteSets

CONSTANTS
    Netname,       \* --netname
    Reply,         \* the datagrams the broadcast can bring
    PeerVersion,   \* the versions schedulers speak, u32 on the wire
    Messages,      \* the messages a scheduler says
    Revised,       \* those of them that older or newer protocols say differently
    MaxSaid,       \* bound: messages said on a connection
    NoPeer         \* no connection

(* A datagram: its length, its first byte, the version and the netname in  *)
(* it, and the place of the first NUL after byte 13, if the buffer is long *)
(* enough to show it.  A name that is not UTF-8 reads as "".               *)
Datagram == [ len : 0..BROAD_BUFLEN, first : Byte, version : Nat,
              name : STRING, nul : 0..255 ]

ASSUME ConnectionAssumption ==
    /\ Netname \in STRING
    /\ \A r \in Reply : r \in Datagram
    /\ \A v \in PeerVersion : v # 0 /\ IsU32(v)
    /\ \A m \in Messages : IsMessage(m) /\ IsU32(Len(encode(m)) + 4)
    /\ Revised \subseteq Messages
    /\ MaxSaid \in Nat

VARIABLES
    configured,\* whether --scheduler gives an address
    pc,        \* where run_monitor waits
    info,      \* SchedulerInfo: the netname and version discovery returned
    agreed,    \* the version agreed on
    need,      \* the length of the frame whose payload is awaited
    peer,      \* the other end: what it is and how far it is, or NoPeer
    toPeer,    \* the bytes written to the connection, all of them
    fromPeer,  \* the bytes that came and were not read
    closed,    \* whether no more will come
    said,      \* history: what the peer has said on this connection
    received   \* history: what recv_message returned on it

streams == <<peer, toPeer, fromPeer, closed>>
history == <<said, received>>
vars == <<configured, pc, info, agreed, need, peer, toPeer, fromPeer, closed, said, received>>

Handshaking == {"hello", "confirm"}
Reading == {"length", "payload"}
PC == {"start", "listening", "connecting", "asleep", "panicked"}
          \cup Handshaking \cup Reading

(* What the peer may confirm: what it agreed to, or another version.       *)
Peer == [ version : PeerVersion, eager : BOOLEAN, spoken : BOOLEAN,
          confirmed : PeerVersion \cup {0, PROTOCOL_VERSION} ]

Init ==
    /\ configured \in BOOLEAN
    /\ pc = "start"
    /\ info = [netname |-> "", version |-> 0]
    /\ agreed = 0 /\ need = 0
    /\ peer = NoPeer /\ toPeer = <<>> /\ fromPeer = <<>> /\ closed = TRUE
    /\ said = <<>> /\ received = <<>>

-----------------------------------------------------------------------------
(* connect_and_monitor returns: socket and streams are dropped, and        *)
(* run_monitor reports Disconnected and sleeps.                            *)
Leave ==
    /\ pc' = "asleep"
    /\ agreed' = 0 /\ need' = 0
    /\ peer' = NoPeer /\ toPeer' = <<>> /\ fromPeer' = <<>> /\ closed' = TRUE

Fail == Leave /\ UNCHANGED <<info, history>>

WakeUp ==
    /\ pc = "asleep"
    /\ pc' = "start"
    /\ UNCHANGED <<info, agreed, need, streams, history>>

-----------------------------------------------------------------------------
(* discover_scheduler.                                                     *)

(* The configured address at once; or a socket, a broadcast, and a wait.   *)
Start ==
    /\ pc = "start"
    /\ IF configured
       THEN /\ info' = [netname |-> Netname, version |-> PROTOCOL_VERSION]
            /\ pc' = "connecting"
       ELSE /\ info' = info
            /\ pc' = "listening"
    /\ UNCHANGED <<agreed, need, streams, history>>

StartFails == pc = "start" /\ ~configured /\ Fail

TimesOut == pc = "listening" /\ Fail

(* position(..).unwrap_or(255) over the 255 bytes after byte 13.           *)
netname_end(r) == IF r.nul < BROAD_BUFLEN - 13 THEN r.nul ELSE 255

(* The slice up to there panics if it leaves the buffer.                   *)
Sliced(r) == 13 + netname_end(r) <= BROAD_BUFLEN

(* What is too short or too old is refused unsliced, another network after.*)
Refused(r) ==
    \/ r.len < 13 \/ r.first < 3 \/ r.version < MIN_PROTOCOL_VERSION
    \/ Sliced(r) /\ Netname # "" /\ r.name # "" /\ r.name # Netname

(* A reply without a name counts as one of the network asked for.          *)
Discovered(r) ==
    [netname |-> IF r.name = "" THEN Netname ELSE r.name, version |-> r.version]

(* The first datagram decides.  A task that panics is gone.                *)
TakeReply ==
    /\ pc = "listening"
    /\ \E r \in Reply :
        \/ Refused(r) /\ Fail
        \/ /\ ~Refused(r)
           /\ pc' = IF Sliced(r) THEN "connecting" ELSE "panicked"
           /\ info' = IF Sliced(r) THEN Discovered(r) ELSE info
           /\ UNCHANGED <<agreed, need, streams, history>>

-----------------------------------------------------------------------------
(* TcpSchedulerConnection::connect.                                        *)

(* Whoever listens there now: it need not be the one that answered.        *)
NewPeer(v, eager) ==
    [version |-> v, eager |-> eager, spoken |-> FALSE, confirmed |-> 0]

(* Mutant: the remote version is read before the own is written.           *)
Connect_ReadsFirst ==
    /\ pc = "connecting"
    /\ \E v \in PeerVersion, eager \in BOOLEAN : peer' = NewPeer(v, eager)
    /\ toPeer' = <<>>
    /\ fromPeer' = <<>> /\ closed' = FALSE
    /\ said' = <<>> /\ received' = <<>>
    /\ pc' = "hello"
    /\ UNCHANGED <<info, agreed, need>>

(* The connection is made and the own version written.                     *)
Connect ==
    /\ pc = "connecting"
    /\ \E v \in PeerVersion, eager \in BOOLEAN : peer' = NewPeer(v, eager)
    /\ toPeer' = LittleEndian(PROTOCOL_VERSION)
    /\ fromPeer' = <<>> /\ closed' = FALSE
    /\ said' = <<>> /\ received' = <<>>
    /\ pc' = "hello"
    /\ UNCHANGED <<info, agreed, need>>

ConnectFails == pc = "connecting" /\ Fail

(* read_exact(n): n bytes, or an error if the stream ends before.          *)
Has(n) == Len(fromPeer) >= n
Int4 == SubSeq(fromPeer, 1, 4)
Consume(n) == fromPeer' = SubSeq(fromPeer, n + 1, Len(fromPeer))
Wanted == IF pc = "payload" THEN need ELSE 4

ReadFails == pc \in Handshaking \cup Reading /\ closed /\ ~Has(Wanted) /\ Fail

(* A write to a connection the peer has left may already fail.             *)
WriteFails == pc \in Handshaking /\ closed /\ Has(4) /\ Fail

(* Mutant: the version of the datagram is taken for the peer's.            *)
AgreedOn_Discovered(remote) ==
    IF info.version < PROTOCOL_VERSION THEN info.version ELSE PROTOCOL_VERSION

AgreedOn(remote) == IF remote < PROTOCOL_VERSION THEN remote ELSE PROTOCOL_VERSION

ReadHello ==
    LET v == AgreedOn(FromLittleEndian(Int4)) IN
    /\ pc = "hello" /\ Has(4)
    /\ IF v < MIN_PROTOCOL_VERSION THEN Fail
       ELSE /\ agreed' = v
            /\ Consume(4)
            /\ toPeer' = toPeer \o LittleEndian(v)
            /\ pc' = "confirm"
            /\ UNCHANGED <<info, need, peer, closed, history>>

Login == encode_framed([kind |-> "MonLogin", fields |-> <<>>])

ReadConfirm ==
    /\ pc = "confirm" /\ Has(4)
    /\ IF FromLittleEndian(Int4) # agreed THEN Fail
       ELSE /\ Consume(4)
            /\ toPeer' = toPeer \o Login
            /\ pc' = "length"
            /\ UNCHANGED <<info, agreed, need, peer, closed, history>>

-----------------------------------------------------------------------------
(* recv_message: two reads.                                                *)

(* Mutant: any length is believed.                                         *)
ReadLength_NoLimit ==
    /\ pc = "length" /\ Has(4)
    /\ need' = FromBigEndian(Int4)
    /\ Consume(4)
    /\ pc' = "payload"
    /\ UNCHANGED <<info, agreed, peer, toPeer, closed, history>>

ReadLength ==
    LET len == FromBigEndian(Int4) IN
    /\ pc = "length" /\ Has(4)
    /\ IF len > MAX_MSG_SIZE THEN Fail
       ELSE /\ need' = len
            /\ Consume(4)
            /\ pc' = "payload"
            /\ UNCHANGED <<info, agreed, peer, toPeer, closed, history>>

(* End leaves connect_and_monitor without an error, and run_monitor goes   *)
(* the same way.                                                           *)
ReadPayload ==
    /\ pc = "payload" /\ Has(need)
    /\ \E m \in {decode(SubSeq(fromPeer, 1, need))} :
        \/ m = Garbage /\ Fail
        \/ /\ m # Garbage
           /\ received' = Append(received, m)
           /\ UNCHANGED <<info, said>>
           /\ IF m.kind = "End" THEN Leave
              ELSE /\ pc' = "length"
                   /\ need' = 0
                   /\ Consume(need)
                   /\ UNCHANGED <<agreed, peer, toPeer, closed>>

MonitorTask ==
    /\ \/ WakeUp \/ Start \/ StartFails \/ TimesOut \/ TakeReply
       \/ Connect \/ ConnectFails \/ ReadHello \/ ReadConfirm
       \/ ReadLength \/ ReadPayload \/ ReadFails \/ WriteFails
    /\ UNCHANGED configured

-----------------------------------------------------------------------------
(* EXTERNAL.  The scheduler's end.  It says its version at once or after   *)
(* hearing ours, confirms what we chose, and talks after the login, which  *)
(* is what follows the two versions of four bytes.                         *)

PeerWrites(bytes) == fromPeer' = fromPeer \o bytes
Ours == <<configured, pc, info, agreed, need, toPeer, closed, received>>

PeerSpeaks ==
    /\ peer # NoPeer /\ ~closed /\ ~peer.spoken
    /\ peer.eager \/ Len(toPeer) >= 4
    /\ peer' = [peer EXCEPT !.spoken = TRUE, !.eager = FALSE]
    /\ PeerWrites(LittleEndian(peer.version))
    /\ UNCHANGED <<Ours, said>>

(* A peer that does not agree says so with another version.                *)
PeerConfirms ==
    /\ peer # NoPeer /\ ~closed /\ peer.spoken /\ peer.confirmed = 0
    /\ Len(toPeer) >= 8
    /\ \E v \in PeerVersion \cup {FromLittleEndian(SubSeq(toPeer, 5, 8))} :
        /\ peer' = [peer EXCEPT !.confirmed = v]
        /\ PeerWrites(LittleEndian(v))
    /\ UNCHANGED <<Ours, said>>

(* What a scheduler sends, and what it means by it: a message; one of a    *)
(* newer protocol, with a field more; one of an older, with a field less;  *)
(* an empty string without its NUL; a language this program does not know; *)
(* a name that is not UTF-8; a type decode has no arm for; a frame that is *)
(* empty or longer than allowed.                                           *)
Framed(bytes) == encode_u32(Len(bytes)) \o bytes
Speech ==
    {<<m, encode_framed(m)>> : m \in Messages}
    \cup {<<m, Framed(encode(m) \o BigEndian(1))>> : m \in Revised}
    \cup {<<Garbage, Framed(SubSeq(encode(m), 1, Len(encode(m)) - 1))>> : m \in Revised}
    \cup {<<[kind |-> "MonStats", fields |-> [host_id |-> 1, statmsg |-> <<>>]],
            Framed(BigEndian(87) \o BigEndian(1) \o BigEndian(0))>>,
          <<[kind |-> "MonGetCs", fields |->
               [filename |-> <<>>, lang |-> Custom, job_id |-> 1, client_id |-> 2]],
            Framed(BigEndian(83) \o encode_string(<<>>) \o BigEndian(9)
                     \o BigEndian(1) \o BigEndian(2))>>,
          <<Garbage, Framed(BigEndian(87) \o BigEndian(1) \o encode_string(<<233>>))>>,
          <<Garbage, Framed(BigEndian(71))>>,
          <<Garbage, Framed(<<>>)>>,
          <<Garbage, BigEndian(MAX_MSG_SIZE + 1)>>}

PeerSays ==
    /\ peer # NoPeer /\ ~closed /\ peer.confirmed # 0
    /\ Len(toPeer) > 8 /\ Len(said) < MaxSaid
    /\ \E s \in Speech : said' = Append(said, s[1]) /\ PeerWrites(s[2])
    /\ UNCHANGED <<Ours, peer>>

(* The stream ends, whole or cut off at any byte.                          *)
PeerLeaves ==
    /\ peer # NoPeer /\ ~closed
    /\ closed' = TRUE
    /\ \E n \in 0..Len(fromPeer) : fromPeer' = SubSeq(fromPeer, 1, n)
    /\ UNCHANGED <<configured, pc, info, agreed, need, peer, toPeer, history>>

PeerNext == PeerSpeaks \/ PeerConfirms \/ PeerSays \/ PeerLeaves

Next == MonitorTask \/ PeerNext

Spec == Init /\ [][Next]_vars

(* The task goes on whenever it can; a peer that is there does its part of *)
(* the handshake, which is assumed and not the program's doing.            *)
FairSpec ==
    Spec /\ WF_vars(MonitorTask) /\ WF_vars(PeerSpeaks) /\ WF_vars(PeerConfirms)

-----------------------------------------------------------------------------
(* The networks that a scheduler may be shown as.                          *)
Network == {"", Netname} \cup {r.name : r \in Reply}

(* What a peer may mean, and what of that recv_message may return: a       *)
(* message, each of its fields with a value of its type.                   *)
Said == {s[1] : s \in Speech}
Returned == {m \in Said : IsMessage(m)}

(* Whatever the peer says of Speech and wherever the stream ends, a frame  *)
(* is awaited that is within the limit, and what recv_message returns is a *)
(* message (connection.rs:78-90; messages.rs:198-265).                     *)
TypeOK ==
    /\ configured \in BOOLEAN
    /\ pc \in PC
    /\ info \in [netname : Network, version : Nat]
    /\ agreed \in 0..PROTOCOL_VERSION
    /\ need \in 0..MAX_MSG_SIZE
    /\ peer \in Peer \cup {NoPeer}
    /\ \A s \in {toPeer, fromPeer} : s \in Seq(Byte)
    /\ closed \in BOOLEAN
    /\ said \in Seq(Said) /\ received \in Seq(Returned)

(* The two ends never talk in different versions: once the program has     *)
(* logged in, the peer has confirmed the very version the program goes on  *)
(* with, one that both speak and that is not too old, even if another      *)
(* scheduler answered the broadcast than took the connection               *)
(* (connection.rs:33-57; discovery.rs:86).                                 *)
VersionsAgree ==
    pc \in Reading =>
        /\ peer.confirmed = agreed
        /\ agreed <= peer.version /\ agreed <= PROTOCOL_VERSION
        /\ agreed >= MIN_PROTOCOL_VERSION

(* recv_message returns what the peer said, whole, in order and up to some *)
(* point, wherever the stream is cut and whatever else the peer sends: no  *)
(* read ever starts within a frame, no field is taken for another, nothing *)
(* of a lost connection comes out of the next (connection.rs:78-90,        *)
(* messages.rs:198-265, codec.rs).                                         *)
Channel == INSTANCE MessageChannel
    WITH Closing <- {m \in Messages : m.kind = "End"},
         open <- pc \in Handshaking \cup Reading,
         meant <- said
ImplementsMessageChannel == Channel!Spec

(* Against a peer that answers, in either order, an attempt ends in a      *)
(* session or in an error, and neither end waits for the other for ever;   *)
(* nor does a datagram stop the task (connection.rs:33-46, discovery.rs).  *)
EveryAttemptEnds ==
    pc \in {"start", "listening", "connecting"} \cup Handshaking
        ~> pc \in {"length", "asleep"}
=============================================================================
