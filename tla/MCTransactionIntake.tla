------------------------ MODULE MCTransactionIntake -------------------------
EXTENDS TransactionIntake

CONSTANTS t1, s1, w1, w2

Msg(form, op, slice, refs) == [form |-> form, op |-> op, slice |-> slice, refs |-> refs]

Alone(m) == [in |-> <<m>>, out |-> <<>>, envelope |-> TRUE]

Tail32(op) == IF op.emitted THEN Timestamp ELSE <<>>

Complete(op) == Msg("boc", op, Body(op.event) \o Tail32(op), <<>>)

\* Every message of the game cut off after any of its fields.
Legacy ==
    UNION {{Msg("boc", op, SubSeq(Complete(op).slice, 1, n), <<>>) :
                n \in 0 .. Len(Complete(op).slice)} : op \in Opcodes}

\* A GameInitialized with the configuration, cut off likewise.
Remediated ==
    UNION {LET slice == Body(op.event) \o ConfigSnapshot
               ref == ConfigRef \o Tail32(op)
           IN  {Msg("boc", op, SubSeq(slice, 1, n), <<>>) : n \in 4 .. Len(slice)}
                   \cup {Msg("boc", op, slice, <<SubSeq(ref, 1, n)>>) : n \in 0 .. Len(ref)} :
           op \in {o \in Opcodes : o.event = "GameInitialized"}}

WithId(op, id) == [Complete(op) EXCEPT !.slice[1].holds = id]

Op(event) == [event |-> event, emitted |-> FALSE]

Plain == Msg("empty cell", Foreign, <<>>, <<>>)

Others ==
    {WithId(Op("Draw"), "zero"), WithId(Op("Draw"), "above int64"),
     Msg("raw", Op("SecretOpened"), Body("SecretOpened"), <<>>),
     Msg("json", Op("Draw"), Body("Draw"), <<>>), Msg("boc", Foreign, <<>>, <<>>), Plain}
        \cup {Msg(form, Foreign, <<>>, <<>>) : form \in {"raw", "short", "garbled", "bodyless", "json", "null"}}

\* A notification that another message of the transaction comes before or after.
Pairs ==
    LET whole == Complete(Op("GameStarted"))
        cut == Msg("boc", Op("GameStarted"), SubSeq(whole.slice, 1, 2), <<>>)
        foreign == Msg("boc", Foreign, <<>>, <<>>)
    IN  {[in |-> <<a>>, out |-> <<b>>, envelope |-> e] :
            a \in {foreign, Plain, cut}, b \in {whole, cut, foreign}, e \in BOOLEAN}

MCContents == {Alone(m) : m \in Legacy \cup Remediated \cup Others} \cup Pairs

Symmetry == Permutations(Workers)
=============================================================================
