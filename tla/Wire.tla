-------------------------------- MODULE Wire --------------------------------
(***************************************************************************)
(* The bytes on the connection: the codec (codec.rs), the messages and     *)
(* their layouts (messages.rs) and the protocol's constants (lib.rs) of    *)
(* src/crates/icecc-protocol/src.  A buffer is a sequence of bytes; a      *)
(* message is a kind and the values of its fields by name.                 *)
(*                                                                         *)
(* Decoding moves a cursor over the buffer: for each type of field there   *)
(* is what it takes to fit at a position, what it reads there, and where   *)
(* it leaves the cursor.                                                   *)
(***************************************************************************)
EXTENDS Integers, Sequences, SequencesExt

PROTOCOL_VERSION == 44
MIN_PROTOCOL_VERSION == 21
BROAD_BUFLEN == 268
MAX_MSG_SIZE == 1048576

Byte == 0..255

(* A number below 2^32, which TLC itself cannot write down.                *)
IsU32(n) == n \in Nat /\ n \div 16777216 < 256

-----------------------------------------------------------------------------
(* u32::to_be_bytes, from_be_bytes; the handshake's integers are           *)
(* little-endian.                                                          *)
BigEndian(n) == <<n \div 16777216, (n \div 65536) % 256, (n \div 256) % 256, n % 256>>
FromBigEndian(b) == ((b[1] * 256 + b[2]) * 256 + b[3]) * 256 + b[4]
LittleEndian(n) == Reverse(BigEndian(n))
FromLittleEndian(b) == FromBigEndian(Reverse(b))

encode_u32(n) == BigEndian(n)
FitsU32(data, at) == at + 4 <= Len(data)
decode_u32(data, at) == FromBigEndian(SubSeq(data, at + 1, at + 4))

(* The length on the wire counts the NUL.                                  *)
encode_string(s) == encode_u32(Len(s) + 1) \o s \o <<0>>

(* std::str::from_utf8, for the bytes explored: a single byte from 128 on  *)
(* is no text.                                                             *)
IsUtf8(s) == \A i \in DOMAIN s : s[i] < 128

(* A string of length 0 has no NUL either.                                 *)
decode_string(data, at) ==
    SubSeq(data, at + 5, at + 4 + decode_u32(data, at) - 1)
FitsString(data, at) ==
    /\ FitsU32(data, at)
    /\ at + 4 + decode_u32(data, at) <= Len(data)
    /\ IsUtf8(decode_string(data, at))

AfterString(data, at) == at + 4 + decode_u32(data, at)

-----------------------------------------------------------------------------
(* The types decode knows.  MessageType has four more (Unknown, GetCs,     *)
(* JobBegin, JobDone), which it refuses like numbers that are no type.     *)
MessageType ==
    [ Ping |-> 66, End |-> 67, JobLocalDone |-> 79, MonLogin |-> 82, MonGetCs |-> 83,
      MonJobBegin |-> 84, MonJobDone |-> 85, MonLocalJobBegin |-> 86, MonStats |-> 87 ]
Kind == DOMAIN MessageType

(* Language::from_u32: C, Cxx, ObjC, ObjCxx, and Custom for all the rest.  *)
Custom == 4
LanguageFrom(n) == IF n < Custom THEN n ELSE Custom

(* The fields of each kind, in the order Message::encode writes them.      *)
Fields ==
    [ MonLogin |-> <<>>, Ping |-> <<>>, End |-> <<>>,
      MonGetCs |-> <<"filename", "lang", "job_id", "client_id">>,
      MonJobBegin |-> <<"job_id", "start_time", "host_id">>,
      MonJobDone |-> <<"job_id", "exitcode", "real_msec", "user_msec", "sys_msec",
                       "pfaults", "in_compressed", "in_uncompressed",
                       "out_compressed", "out_uncompressed", "flags">>,
      JobLocalDone |-> <<"job_id">>,
      MonLocalJobBegin |-> <<"host_id", "job_id", "start_time", "file">>,
      MonStats |-> <<"host_id", "statmsg">> ]

TextField == {"filename", "file", "statmsg"}

(* The values a field has.                                                 *)
IsValue(name, v) ==
    CASE name \in TextField -> v \in Seq(Byte) /\ IsUtf8(v) /\ IsU32(Len(v) + 1)
      [] name = "lang" -> v \in 0..Custom
      [] OTHER -> IsU32(v)
IsMessage(m) ==
    /\ m.kind \in Kind
    /\ m = [kind |-> m.kind, fields |-> [f \in ToSet(Fields[m.kind]) |-> m.fields[f]]]
    /\ \A f \in ToSet(Fields[m.kind]) : IsValue(f, m.fields[f])

EncodeField(name, v) ==
    IF name \in TextField THEN encode_string(v) ELSE encode_u32(v)
encode(m) ==
    encode_u32(MessageType[m.kind]) \o
    FlattenSeq([i \in DOMAIN Fields[m.kind] |->
                    EncodeField(Fields[m.kind][i], m.fields[Fields[m.kind][i]])])
encode_framed(m) == encode_u32(Len(encode(m))) \o encode(m)

-----------------------------------------------------------------------------
(* Mutant: a local job's host and id are read in the other order.          *)
FieldsRead_JobFirst ==
    [Fields EXCEPT !.MonLocalJobBegin = <<"job_id", "host_id", "start_time", "file">>]

(* The order in which Message::decode reads them, written out a second     *)
(* time in the code.                                                       *)
FieldsRead ==
    [ MonLogin |-> <<>>, Ping |-> <<>>, End |-> <<>>,
      MonGetCs |-> <<"filename", "lang", "job_id", "client_id">>,
      MonJobBegin |-> <<"job_id", "start_time", "host_id">>,
      MonJobDone |-> <<"job_id", "exitcode", "real_msec", "user_msec", "sys_msec",
                       "pfaults", "in_compressed", "in_uncompressed",
                       "out_compressed", "out_uncompressed", "flags">>,
      JobLocalDone |-> <<"job_id">>,
      MonLocalJobBegin |-> <<"host_id", "job_id", "start_time", "file">>,
      MonStats |-> <<"host_id", "statmsg">> ]

Fits(name, data, at) ==
    IF name \in TextField THEN FitsString(data, at) ELSE FitsU32(data, at)
Value(name, data, at) ==
    CASE name \in TextField -> decode_string(data, at)
      [] name = "lang" -> LanguageFrom(decode_u32(data, at))
      [] OTHER -> decode_u32(data, at)
After(name, data, at) ==
    IF name \in TextField /\ FitsString(data, at) THEN AfterString(data, at) ELSE at + 4

(* What Message::decode cannot decode.                                     *)
Garbage == [ kind |-> "garbage" ]

(* Field after field with one cursor; what is left over is not looked at.  *)
DecodeFields(kind, data) ==
    LET names == FieldsRead[kind]
        at[i \in 1..(Len(names) + 1)] ==
            IF i = 1 THEN 4 ELSE After(names[i - 1], data, at[i - 1])
    IN  IF \E i \in DOMAIN names : ~Fits(names[i], data, at[i]) THEN Garbage
        ELSE [kind |-> kind,
              fields |-> [f \in ToSet(names) |->
                              Value(f, data, at[CHOOSE i \in DOMAIN names : names[i] = f])]]

decode(data) ==
    IF ~FitsU32(data, 0) \/ \A k \in Kind : MessageType[k] # decode_u32(data, 0)
    THEN Garbage
    ELSE DecodeFields(CHOOSE k \in Kind : MessageType[k] = decode_u32(data, 0), data)
=============================================================================
