---------------------------- MODULE MessageParser ----------------------------
(***************************************************************************)
(* The runtime message parser (MessageParserV2) and the choice of the one  *)
(* message of a transaction that is handled.                               *)
(*                                                                         *)
(* A message body is a cell: an opcode, a sequence of fields and at most   *)
(* one reference to a further cell.  A field has a type, which fixes how   *)
(* many bits it takes, and holds the name of what the sender put there, so *)
(* that a field read under another name shows.                             *)
(***************************************************************************)
EXTENDS Integers, SequencesExt

GameEvents == {"GameInitialized", "GameStarted", "GameFinished", "GameCancelled",
               "SecretOpened", "Draw", "InsufficientBalance"}

\* The opcodes of the notify messages and of the events the factory emits.
Opcodes ==
    [event : GameEvents, emitted : {FALSE}]
        \cup [event : GameEvents \ {"SecretOpened", "InsufficientBalance"}, emitted : {TRUE}]

Foreign == [event |-> "none", emitted |-> FALSE]

Bits == [uint256 |-> 256, address |-> 267, uint32 |-> 32, uint8 |-> 8, coins |-> 4]

BitsLeft(slice) == FoldLeft(LAMBDA n, f : n + Bits[f.type], 0, slice)

Field(type, name) == [type |-> type, holds |-> name]

\* What every message of an event holds, in the order of the parse functions.
GameInitializedNotify ==
    <<Field("uint256", "gameId"), Field("address", "playerOne"), Field("coins", "bidValue")>>

GameStartedNotify ==
    <<Field("uint256", "gameId"), Field("address", "playerOne"), Field("address", "playerTwo"),
      Field("coins", "totalGainings")>>

GameFinishedNotify ==
    <<Field("uint256", "gameId"), Field("address", "winner"), Field("address", "looser"),
      Field("coins", "totalGainings")>>

GameCancelledNotify == <<Field("uint256", "gameId"), Field("address", "playerOne")>>

SecretOpenedNotify ==
    <<Field("uint256", "gameId"), Field("address", "player"), Field("uint8", "coinSide")>>

DrawNotify == <<Field("uint256", "gameId")>>

InsufficientBalanceNotify ==
    <<Field("uint256", "gameId"), Field("coins", "required"), Field("coins", "actual")>>

Body(event) ==
    CASE event = "GameInitialized" -> GameInitializedNotify
      [] event = "GameStarted" -> GameStartedNotify
      [] event = "GameFinished" -> GameFinishedNotify
      [] event = "GameCancelled" -> GameCancelledNotify
      [] event = "SecretOpened" -> SecretOpenedNotify
      [] event = "Draw" -> DrawNotify
      [] event = "InsufficientBalance" -> InsufficientBalanceNotify

\* What remediated factories append to GameInitialized.
ConfigSnapshot ==
    <<Field("uint32", "serviceFeeNumerator"), Field("uint32", "referrerFeeNumerator"),
      Field("uint32", "waitingForOpenBidSeconds"), Field("coins", "lowestBid")>>

ConfigRef ==
    <<Field("coins", "highestBid"), Field("coins", "minReferrerPayoutValue"),
      Field("address", "feeReceiver"), Field("uint32", "protocolVersion")>>

Timestamp == <<Field("uint32", "timestamp")>>
Forms == {"boc", "raw", "empty cell", "short", "garbled", "bodyless", "json", "null"}

Slice == Seq([type : DOMAIN Bits, holds : STRING])

Message == [form : Forms, op : Opcodes \cup {Foreign}, slice : Slice, refs : Seq(Slice)]
-----------------------------------------------------------------------------
Fails(why) == [ok |-> FALSE, why |-> why]

\* Loading the fields of layout succeeds if the slice has that many bits.
Loads(slice, layout) ==
    /\ Len(layout) <= Len(slice)
    /\ \A i \in DOMAIN layout : slice[i].type = layout[i].type

Rest(slice, layout) == SubSeq(slice, Len(layout) + 1, Len(slice))

\* Name and content of each field read.
Read(slice, layout) == {<<layout[i].holds, slice[i].holds>> : i \in DOMAIN layout}

\* Mutant: off by one at the timestamp.
HasConfigEqual(rest, refs) == BitsLeft(rest) >= 32 \/ refs # <<>>

\* A legacy GameInitialized has 32 bits left at most, the timestamp, and no reference.
HasConfig(rest, refs) == BitsLeft(rest) > 32 \/ refs # <<>>

ConfigRefLayout(op) == IF op.emitted THEN ConfigRef \o Timestamp ELSE ConfigRef

\* parseMessageDataFromSlice with the parse functions of the events.
ParseMessageData(op, slice, refs) ==
    LET body == Body(op.event)
        rest == Rest(slice, body)
        config == op.event = "GameInitialized" /\ HasConfig(rest, refs)
    IN  IF ~Loads(slice, body) THEN Fails("field missing")
        ELSE IF slice[1].holds = "above int64" THEN Fails("game id overflow")
        ELSE IF config /\ ~(/\ Loads(rest, ConfigSnapshot) /\ refs # <<>>
                            /\ Loads(refs[1], ConfigRefLayout(op)))
             THEN Fails("config field missing")
        ELSE IF op.emitted /\ op.event # "GameInitialized" /\ ~Loads(rest, Timestamp)
             THEN Fails("timestamp missing")
        ELSE [ok |-> TRUE, event |-> op.event,
              fields |-> Read(slice, body) \cup
                         (IF config THEN Read(rest, ConfigSnapshot) \cup Read(refs[1], ConfigRef)
                          ELSE {})]

\* The form of a message: a body that is a bag of cells ("boc"), bytes without
\* that wrapper ("raw"), a cell too small for an opcode ("empty cell"), less than
\* four bytes ("short"), not base64 ("garbled"), none at all ("bodyless"), the
\* JSON object of the legacy format ("json"), or JSON null.
ParseInMsg(m) ==
    CASE m.form = "null" -> Fails("empty in_msg")
      [] m.form = "bodyless" -> Fails("no event_type")
      [] m.form = "garbled" -> Fails("not base64")
      [] m.form = "short" -> Fails("message too short")
      [] m.form = "empty cell" -> Fails("opcode missing")
      [] m.form = "json" -> [ok |-> TRUE, event |-> m.op.event,
                             fields |-> Read(m.slice, m.slice)]
      [] m.form \in {"boc", "raw"} ->
            IF m.op \notin Opcodes THEN Fails("unknown opcode")
            ELSE ParseMessageData(m.op, m.slice, IF m.form = "boc" THEN m.refs ELSE <<>>)

\* Mutant: a missing field is ignored like an unknown opcode.
IgnorableWide(why) ==
    why \in {"unknown opcode", "empty in_msg", "message too short", "field missing"}

\* isIgnorableMessageParseError; "no message body found in in_msg" never occurs.
Ignorable(why) == why \in {"unknown opcode", "empty in_msg", "message too short"}
-----------------------------------------------------------------------------
\* in_msg first, then out_msgs.
Payloads(tx) == tx.in \o tx.out

\* collectTransactionMessages: where the messages are that are not null.
Candidates(tx) == {i \in DOMAIN Payloads(tx) : Payloads(tx)[i].form # "null"}

First(S) == CHOOSE i \in S : \A j \in S : i <= j

\* The first candidate that parses, else the first error that counts.
ParseTransactionMessage(tx) ==
    LET parsed == [i \in Candidates(tx) |-> ParseInMsg(Payloads(tx)[i])]
        good == {i \in DOMAIN parsed : parsed[i].ok}
        bad == {i \in DOMAIN parsed : ~parsed[i].ok /\ ~Ignorable(parsed[i].why)}
    IN  CASE ~tx.envelope -> Fails("out_msgs unreadable")
          [] tx.envelope /\ good # {} -> parsed[First(good)]
          [] tx.envelope /\ good = {} /\ bad # {} -> parsed[First(bad)]
          [] OTHER -> Fails("no game events")

\* GameEvent.Validate.
Valid(p) == p.event \in GameEvents /\ <<"gameId", "zero">> \notin p.fields

ParseTransaction(tx) ==
    LET p == ParseTransactionMessage(tx)
    IN  IF p.ok /\ ~Valid(p) THEN Fails("event validation failed") ELSE p

\* classifyParseError: what is stored for the operators, and as what.
Observable(why) == why # "no game events"
=============================================================================
