------------------------------- MODULE Packet -------------------------------
(***************************************************************************)
(* The packets of wire/pkt and their encoding with wire/endian, as pure    *)
(* operators.  Bytes are numbers below 256; a header is encoded by the     *)
(* protobuf library, external, as one byte string that stands for it.  A   *)
(* command is the sequence of its parts between dots.  The field Flag of a *)
(* header is left out: nothing reads it.                                   *)
(***************************************************************************)
EXTENDS Naturals, Sequences, SequencesExt

MagicLogicPkt == <<195, 17, 163, 101>>
MagicBasicPkt == <<195, 21, 167, 101>>

CodePing == 1
CodePong == 2

MetaDestServer   == "dest.server"
MetaDestChannels == "dest.channels"

CommandLoginSignIn  == <<"login", "signin">>
CommandLoginSignOut == <<"login", "signout">>
CommandChatUserTalk == <<"chat", "user.talk">>

SNLogin == "chat"
SNChat  == "chat"

Statuses == {"Success", "SystemException", "Unauthorized", "InvalidCommand"}
-----------------------------------------------------------------------------
(***************************************************************************)
(* Readers take from the front of a byte string and fail when it is short. *)
(***************************************************************************)
Fail == [ok |-> FALSE]

Got(val, rest) == [ok |-> TRUE, val |-> val, rest |-> rest]

\* What reads on after a reader that did not fail.
Then(r, Next(_, _)) == IF r.ok THEN Next(r.val, r.rest) ELSE Fail

ReadFixedBytes(n, bytes) ==
    IF Len(bytes) < n THEN Fail
    ELSE Got(SubSeq(bytes, 1, n), SubSeq(bytes, n + 1, Len(bytes)))

\* Big-endian: a number without a sign in 2 or in 4 bytes, cut off above, and
\* what such bytes say.
Byte(n, unit) == (n \div unit) % 256

Uint16(n) == <<Byte(n, 256), Byte(n, 1)>>
Uint32(n) == <<Byte(n, 16777216), Byte(n, 65536), Byte(n, 256), Byte(n, 1)>>

Value16(b) == 256 * b[1] + b[2]
Value32(b) == 16777216 * b[1] + 65536 * b[2] + 256 * b[3] + b[4]

ReadUint16(bytes) ==
    Then(ReadFixedBytes(2, bytes), LAMBDA b, rest : Got(Value16(b), rest))

ReadUint32(bytes) ==
    Then(ReadFixedBytes(4, bytes), LAMBDA b, rest : Got(Value32(b), rest))

WriteBytes(buf) == Uint32(Len(buf)) \o buf

ReadBytes(bytes) == Then(ReadUint32(bytes), LAMBDA n, rest : ReadFixedBytes(n, rest))
-----------------------------------------------------------------------------
(***************************************************************************)
(* Packets.                                                                *)
(***************************************************************************)
Meta(key, value) == [key |-> key, value |-> value]

Header(command, sequence, status, channelId, dest) ==
    [command |-> command, sequence |-> sequence, status |-> status,
     channelId |-> channelId, dest |-> dest, meta |-> <<>>]

\* New draws a number from wire.Seq when its options set none.
New(command, sequence, next, channelId, dest, body) ==
    [kind |-> "logic", body |-> body,
     header |-> Header(command, IF sequence = 0 THEN next ELSE sequence, "Success",
                       channelId, dest)]

\* The metas are not taken over.
NewFrom(h) ==
    [kind |-> "logic", body |-> <<>>,
     header |-> Header(h.command, h.sequence, h.status, h.channelId, h.dest)]

\* Its length is a field of its own, which nobody sets from the body.
BasicPkt(code) == [kind |-> "basic", code |-> code, length |-> 0, body |-> <<>>]

ServiceName(h) == IF Len(h.command) <= 1 THEN "default" ELSE h.command[1]

AddMeta(p, metas) == [p EXCEPT !.header.meta = @ \o metas]

AddStringMeta(p, key, value) == AddMeta(p, <<Meta(key, value)>>)

\* The first value under a key.
GetMeta(p, key) ==
    LET at == SelectInSeq(p.header.meta, LAMBDA m : m.key = key)
    IN  IF at = 0 THEN Fail ELSE Got(p.header.meta[at].value, <<>>)

\* A turn that only shortens the list.
ShortDelTurn(key, list, i) ==
    IF list.array[i].key # key THEN list ELSE [list EXCEPT !.len = @ - 1]

\* One turn of DelMeta's loop: what follows the i-th meta moves up one place and
\* the list ends one earlier.  The loop goes on over the places the list had at
\* first, and meets what has moved there and, behind the end, what is left over.
DelTurn(key, list, i) ==
    IF list.array[i].key # key THEN list
    ELSE [list EXCEPT
            !.len = @ - 1,
            !.array = [j \in DOMAIN @ |->
                          IF i <= j /\ j < list.len THEN list.array[j + 1] ELSE list.array[j]]]

DelLoop(key, metas) ==
    LET list[i \in 0 .. Len(metas)] ==
            IF i = 0 THEN [array |-> metas, len |-> Len(metas)]
            ELSE DelTurn(key, list[i - 1], i)
    IN  list[Len(metas)]

DelMeta(p, key) ==
    LET end == DelLoop(key, p.header.meta)
    IN  [p EXCEPT !.header.meta = SubSeq(end.array, 1, end.len)]
-----------------------------------------------------------------------------
(***************************************************************************)
(* Encoding.  An empty message of protobuf has no bytes.                   *)
(***************************************************************************)
EmptyHeader == Header(<<>>, 0, "Success", "", "")

ProtoMarshal(h) == IF h = EmptyHeader THEN <<>> ELSE <<h>>

ProtoUnmarshal(bytes) == IF bytes = <<>> THEN EmptyHeader ELSE bytes[1]

Marshal(p) ==
    IF p.kind = "logic"
    THEN MagicLogicPkt \o WriteBytes(ProtoMarshal(p.header)) \o WriteBytes(p.body)
    ELSE MagicBasicPkt \o Uint16(p.code) \o Uint16(p.length)
            \o (IF p.length > 0 THEN p.body ELSE <<>>)

DecodeLogic(bytes) ==
    Then(ReadBytes(bytes), LAMBDA h, rest :
        Then(ReadBytes(rest), LAMBDA body, last :
            Got([kind |-> "logic", header |-> ProtoUnmarshal(h), body |-> body], last)))

DecodeBasic(bytes) ==
    Then(ReadUint16(bytes), LAMBDA code, more :
        Then(ReadUint16(more), LAMBDA n, rest :
            Then(IF n > 0 THEN ReadFixedBytes(n, rest) ELSE Got(<<>>, rest), LAMBDA body, last :
                Got([kind |-> "basic", code |-> code, length |-> n, body |-> body], last))))

Read(bytes) ==
    Then(ReadFixedBytes(4, bytes), LAMBDA magic, rest :
        CASE magic = MagicLogicPkt -> DecodeLogic(rest)
          [] magic = MagicBasicPkt -> DecodeBasic(rest)
          [] OTHER -> Fail)

MustReadLogicPkt(bytes) ==
    LET r == Read(bytes) IN IF r.ok /\ r.val.kind = "logic" THEN r ELSE Fail
=============================================================================
