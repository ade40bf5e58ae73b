---------------------------- MODULE GameActivity ----------------------------
(***************************************************************************)
(* Requests that list games: the activity queues of a wallet               *)
(* (internal/usecase/game_activity.go), its games, and the finished games  *)
(* (internal/usecase/game_query.go).  A request makes several reads, of    *)
(* the games table and of the four reservation tables, while chain events  *)
(* change the rows.                                                        *)
(*                                                                         *)
(* What a reservation table answers is any holder its own rules allow: a   *)
(* join reservation is never the creator's, a cancel reservation always,   *)
(* and the other two belong to players of the game (modules Lobby and      *)
(* FollowUp).                                                              *)
(***************************************************************************)
EXTENDS Integers, FiniteSets, SequencesExt, GameEntity

CONSTANTS Games, Wallets, NoWallet,
          DefaultLimit, MaxLimit,   \* GameActivityConfig
          ResponseDefault, ResponseMax,   \* the limits the handler reports, 20 and 100
          MaxEvents                 \* bound: chain events during a behaviour

ASSUME ActivityAssumption ==
    /\ NoWallet \notin Wallets
    /\ DefaultLimit \in 1 .. MaxLimit /\ MaxLimit \in Nat
    /\ ResponseDefault \in 1 .. ResponseMax /\ ResponseMax \in Nat
    /\ MaxEvents \in Nat

\* A column of time, 0 for NULL.
Times == [{"created", "joined", "revealed", "completed"} -> Nat]

Row == [status : GameStatus, one : Wallets \cup {NoWallet}, two : Wallets \cup {NoWallet},
        opened : SUBSET Wallets, times : Times]

NoRow == [status |-> NotCreated, one |-> NoWallet, two |-> NoWallet, opened |-> {},
          times |-> [c \in {"created", "joined", "revealed", "completed"} |-> 0]]

QueueKeys == <<"joinable", "my-active", "reveal-required", "expired-attention", "history">>

\* The five queues of the activity shell and the plain list of the other requests.
Keys == Range(QueueKeys) \cup {"list"}

Idle == [at |-> "idle"]

VARIABLES
    row,      \* [Games -> Row]
    now,      \* the time of the next event
    events,   \* how many events there were
    req       \* the request, Idle before and after it

vars == <<row, now, events, req>>

Players(r) == {r.one, r.two} \ {NoWallet}

BelongsToWallet(r, w) == w \in Players(r)

LatestGameActivity(r) ==
    CASE r.times["completed"] # 0 -> r.times["completed"]
      [] r.times["completed"] = 0 /\ r.times["revealed"] # 0 -> r.times["revealed"]
      [] r.times["completed"] = 0 /\ r.times["revealed"] = 0 /\ r.times["joined"] # 0 ->
            r.times["joined"]
      [] OTHER -> r.times["created"]

NewRow(w, t) == [NoRow EXCEPT !.status = WaitingForOpponent, !.one = w, !.times["created"] = t]

\* The table holds games of earlier processes.
Init ==
    /\ row \in [Games -> {NoRow} \cup {NewRow(w, 1) : w \in Wallets}]
    /\ now = 1
    /\ events = 0
    /\ req = Idle
-----------------------------------------------------------------------------
(* The rows.  Two events may carry the same time.                          *)

Change(g, from, new) ==
    /\ events < MaxEvents
    /\ row[g].status \in from
    /\ row' = [row EXCEPT ![g] = new]
    /\ events' = events + 1
    /\ now' \in {now, now + 1}
    /\ UNCHANGED req

CreateGame(g, w) ==
    Change(g, {NotCreated}, NewRow(w, now))

JoinGame(g, w) ==
    /\ w # row[g].one
    /\ Change(g, {WaitingForOpponent}, [row[g] EXCEPT !.status = WaitingForOpenBids, !.two = w,
                                                      !.times["joined"] = now])

RevealChoice(g, w) ==
    /\ w \in Players(row[g])
    /\ Change(g, {WaitingForOpenBids}, [row[g] EXCEPT !.opened = @ \cup {w},
                                                      !.times["revealed"] = now])

\* UpdateStatus; no event handler calls it.
UpdateStatus(g) ==
    Change(g, {WaitingForOpenBids}, [row[g] EXCEPT !.status = Ended, !.times["completed"] = now])

CompleteGame(g) ==
    Change(g, {WaitingForOpenBids, Ended}, [row[g] EXCEPT !.status = Paid,
                                                          !.times["completed"] = now])

CancelGame(g) ==
    Change(g, {WaitingForOpponent}, [row[g] EXCEPT !.status = Paid, !.times["completed"] = now])
-----------------------------------------------------------------------------
(* What the requests read and answer.                                      *)

\* Mutant: the reads are in the opposite order.
ReadOrderSwapped(kind) ==
    CASE kind = "queues" -> <<"player", "joinable">>
      [] kind = "mine" -> <<"mine">>
      [] kind = "ended" -> <<"paid", "ended">>

\* buildQueues, GetGamesByPlayerPage, and getGamesForStatus for status ENDED.
ReadOrder(kind) ==
    CASE kind = "queues" -> <<"joinable", "player">>
      [] kind = "mine" -> <<"mine">>
      [] kind = "ended" -> <<"ended", "paid">>

\* The rows a read selects: GetByStatus, GetByPlayer and GetByPlayerAndStatuses
\* with every status of a stored game; own games are not joinable.
Selected(read, w) ==
    CASE read = "joinable" -> {g \in Games : /\ row[g].status = WaitingForOpponent
                                             /\ ~BelongsToWallet(row[g], w)}
      [] read = "ended" -> {g \in Games : row[g].status = Ended}
      [] read = "paid" -> {g \in Games : row[g].status = Paid}
      [] read \in {"player", "mine"} -> {g \in Games : BelongsToWallet(row[g], w)}

\* ORDER BY created_at DESC; rows of the same time come in any order.
Ordered(S) ==
    {s \in [1 .. Cardinality(S) -> S] :
        /\ Range(s) = S
        /\ \A i, j \in DOMAIN s :
              i < j => row[s[i]].times["created"] >= row[s[j]].times["created"]}

\* loadClaims: the holder each of the four tables shows for g.
LoadClaims(g) ==
    [join : (Wallets \ {row[g].one}) \cup {NoWallet}, cancel : {row[g].one, NoWallet},
     reveal : Players(row[g]) \cup {NoWallet}, expired : Players(row[g]) \cup {NoWallet}]

\* The action of a claim of one type: free, the wallet's own, someone else's.
Resolve(holder, w, free, own, other) ==
    IF holder = NoWallet THEN free ELSE IF holder = w THEN own ELSE other

JoinableAction(claims, w) ==
    IF claims.cancel # NoWallet THEN "wait_for_cancel_resolution"
    ELSE Resolve(claims.join, w, "join", "resume_join", "wait_for_join_window")

\* Mutant: only player one is asked to reveal.
NeedsRevealOne(r, w) ==
    r.status = WaitingForOpenBids /\ w = r.one /\ w \notin r.opened

PlayerNeedsReveal(r, w) ==
    r.status = WaitingForOpenBids /\ BelongsToWallet(r, w) /\ w \notin r.opened

\* buildPlayerItem: the queue and the next action of a game of the wallet.
PlayerQueue(r, w) ==
    CASE r.status = WaitingForOpponent -> "my-active"
      [] r.status = WaitingForOpenBids ->
            IF PlayerNeedsReveal(r, w) THEN "reveal-required" ELSE "my-active"
      [] r.status = Ended -> "expired-attention"
      [] r.status = Paid -> "history"

PlayerAction(r, claims, w) ==
    CASE r.status = WaitingForOpponent ->
            Resolve(claims.cancel, w, "wait_for_opponent", "resume_cancel",
                    "wait_for_cancel_resolution")
      [] r.status = WaitingForOpenBids ->
            IF PlayerNeedsReveal(r, w)
            THEN Resolve(claims.reveal, w, "reveal", "resume_reveal", "wait_for_reveal")
            ELSE "wait_for_reveal"
      [] r.status = Ended ->
            Resolve(claims.expired, w, "review_result", "resume_review_result",
                    "wait_for_review_window")
      [] r.status = Paid -> "browse_history"

Item(g, r, key, action) ==
    [game |-> g, row |-> r, key |-> key, action |-> action, at |-> LatestGameActivity(r)]

BuildItem(read, g, r, claims, w) ==
    CASE read = "joinable" -> Item(g, r, "joinable", JoinableAction(claims, w))
      [] read = "player" -> Item(g, r, PlayerQueue(r, w), PlayerAction(r, claims, w))
      [] read \in {"mine", "ended", "paid"} -> Item(g, r, "list", "none")

\* Mutant: the oldest first.
SortOldestFirst(s) ==
    LET order == SetToSortSeq(DOMAIN s, LAMBDA i, j :
                     s[i].at < s[j].at \/ (s[i].at = s[j].at /\ i < j))
    IN  [k \in DOMAIN s |-> s[order[k]]]

\* sortActivityItems and sortGamesByMostRecentActivity: the latest first, stable.
SortActivityItems(s) ==
    LET order == SetToSortSeq(DOMAIN s, LAMBDA i, j :
                     s[i].at > s[j].at \/ (s[i].at = s[j].at /\ i < j))
    IN  [k \in DOMAIN s |-> s[order[k]]]
-----------------------------------------------------------------------------
(* A request.  req.queues maps a key to its items, req.rows is what the    *)
(* last read left to classify, req.start the table when it began.          *)

Request(kind, w) ==
    /\ req = Idle
    /\ kind = "mine" => w # NoWallet
    /\ req' = [at |-> "running", kind |-> kind, wallet |-> w, reads |-> ReadOrder(kind),
               read |-> "none", rows |-> <<>>, queues |-> [k \in Keys |-> <<>>], start |-> row]
    /\ UNCHANGED <<row, now, events>>

Read ==
    /\ req.at = "running" /\ req.rows = <<>> /\ req.reads # <<>>
    /\ \E s \in Ordered(Selected(Head(req.reads), req.wallet)) :
          req' = [req EXCEPT !.reads = Tail(@), !.read = Head(req.reads),
                             !.rows = [i \in DOMAIN s |-> [game |-> s[i], row |-> row[s[i]]]]]
    /\ UNCHANGED <<row, now, events>>

\* Builds the item of one row; the claims are loaded now, the row was read before.
Classify ==
    /\ req.at = "running" /\ req.rows # <<>>
    /\ LET x == Head(req.rows)
       IN  \E claims \in LoadClaims(x.game) :
              LET item == BuildItem(req.read, x.game, x.row, claims, req.wallet)
              IN  req' = [req EXCEPT !.rows = Tail(@),
                                     !.queues[item.key] = Append(@, item)]
    /\ UNCHANGED <<row, now, events>>

Respond ==
    /\ req.at = "running" /\ req.rows = <<>> /\ req.reads = <<>>
    /\ req' = [req EXCEPT !.at = "done",
                          !.queues = [k \in Keys |-> SortActivityItems(req.queues[k])]]
    /\ UNCHANGED <<row, now, events>>

\* A failed query or lookup ends the request with an error; an answer is gone
\* once it is sent.
Return ==
    /\ req # Idle
    /\ req' = Idle
    /\ UNCHANGED <<row, now, events>>

Event(g) ==
    \/ \E w \in Wallets : CreateGame(g, w) \/ JoinGame(g, w) \/ RevealChoice(g, w)
    \/ UpdateStatus(g) \/ CompleteGame(g) \/ CancelGame(g)

Next ==
    \/ \E g \in Games : Event(g)
    \/ \E kind \in {"queues", "mine", "ended"}, w \in Wallets \cup {NoWallet} : Request(kind, w)
    \/ Read \/ Classify \/ Respond \/ Return

Spec == Init /\ [][Next]_vars
-----------------------------------------------------------------------------
(* Pages and search, over the queues of a finished request.                *)

NormalizeLimit(limit) ==
    IF limit <= 0 THEN DefaultLimit ELSE IF limit > MaxLimit THEN MaxLimit ELSE limit

\* The limit in the answer of ListQueue and SearchActivity.
ResponseLimit(limit) ==
    IF limit <= 0 THEN ResponseDefault ELSE IF limit > ResponseMax THEN ResponseMax ELSE limit

\* Mutant: the last page loses its last item.
PaginateOffByOne(items, limit, offset) ==
    IF offset >= Len(items) THEN <<>>
    ELSE SubSeq(items, offset + 1, IF offset + limit > Len(items) THEN Len(items) - 1
                                   ELSE offset + limit)

PaginateActivityItems(items, limit, offset) ==
    IF offset >= Len(items) THEN <<>>
    ELSE SubSeq(items, offset + 1, IF offset + limit > Len(items) THEN Len(items)
                                   ELSE offset + limit)

\* matching: the games whose id or players the query text matches; scope: all
\* queues or the one the request names.
FilterActivitySearchItems(queues, scope, matching) ==
    SortActivityItems(FlattenSeq([i \in DOMAIN scope |->
        SelectSeq(queues[scope[i]], LAMBDA x : x.game \in matching)]))
-----------------------------------------------------------------------------
Done == req.at = "done"

Items == UNION {Range(req.queues[k]) : k \in Keys}

\* What the request is about: a game with row r belongs in its answer.
Concerns(r) ==
    CASE req.kind = "queues" -> r.status = WaitingForOpponent \/ BelongsToWallet(r, req.wallet)
      [] req.kind = "mine" -> BelongsToWallet(r, req.wallet)
      [] req.kind = "ended" -> r.status \in {Ended, Paid}

\* A queue item may be as old as its read, never older: the status it shows was
\* reached before the answer and not left before the request, a wallet that had
\* opened its choice is not sent to reveal, and one told in its active games to
\* wait for the other player's reveal has opened its own.
ItemsCurrent ==
    Done => \A x \in Items :
        /\ req.start[x.game].status <= x.row.status /\ x.row.status <= row[x.game].status
        /\ x.action \in {"reveal", "resume_reveal"} => req.wallet \notin req.start[x.game].opened
        /\ x.key = "my-active" /\ x.action = "wait_for_reveal" => req.wallet \in row[x.game].opened

\* The request is put together from two reads.  A game that belongs in the answer
\* when the request starts and when it ends is in it, even if it moved from the
\* rows of one read to those of the other, and it is there once.  The exceptions
\* are games that moved while the request ran: the wallet joined it, or it was
\* paid.
ListedOnce ==
    Done => \A g \in Games :
        LET places == {<<k, i>> \in Keys \X (1 .. 2 * Cardinality(Games)) :
                          i \in DOMAIN req.queues[k] /\ req.queues[k][i].game = g}
        IN  /\ Concerns(req.start[g]) /\ Concerns(row[g]) => places # {}
            /\ Cardinality(places) > 1 =>
                  \/ /\ req.kind = "queues"
                     /\ ~BelongsToWallet(req.start[g], req.wallet) /\ row[g].two = req.wallet
                  \/ /\ req.kind = "ended"
                     /\ req.start[g].status < Paid /\ row[g].status = Paid

\* The pages a client gets by raising the offset by the limit the handler
\* reports are the queue: nothing is skipped or repeated.  It takes a
\* configuration with the limits of the handler.
PagesCover ==
    Done => \A k \in Keys, limit \in 0 .. MaxLimit + 1 :
        LET items == req.queues[k]
        IN  FlattenSeq([p \in 1 .. Len(items) + 1 |->
                PaginateActivityItems(items, NormalizeLimit(limit),
                                      (p - 1) * ResponseLimit(limit))]) = items

\* A search finds exactly the matching items of its scope, each as often as the
\* queues list it, the most recent activity first.
SearchSorted ==
    Done => \A matching \in SUBSET Games, scope \in {QueueKeys} \cup {<<k>> : k \in Range(QueueKeys)} :
        LET found == FilterActivitySearchItems(req.queues, scope, matching)
        IN  /\ Range(found) = {x \in Items : x.key \in Range(scope) /\ x.game \in matching}
            /\ \A i, j \in DOMAIN found : i < j => found[i].at >= found[j].at
=============================================================================
