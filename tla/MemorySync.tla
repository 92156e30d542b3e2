----------------------------- MODULE MemorySync -----------------------------
(***************************************************************************)
(* Memories kept in step between phones and the server.                    *)
(*                                                                         *)
(* A phone keeps its own copy of the user's memories, the ids it has       *)
(* changed since it last agreed with the server (the dirty ids) and a      *)
(* cursor.  A round of syncNow pushes the dirty copies and then pulls, a   *)
(* page at a time, every row whose version lies above the cursor.          *)
(*                                                                         *)
(* The server gives each written row the next number of one sequence.  The *)
(* number is taken while the statement runs and the row is seen only when  *)
(* it commits, so numbers do not become visible in their order.  A push    *)
(* names the version each copy was made from, and changes a row only when  *)
(* the row is still at that version.                                       *)
(*                                                                         *)
(* A text is a number of its own for every edit, so that a copy tells      *)
(* which edit it holds; pinning and the category are edits like the text.  *)
(***************************************************************************)
EXTENDS Naturals, Sequences, FiniteSets

CONSTANTS
    Devices,       \* the phones of one user
    Memories,      \* the ids of the memories (uuids made by the phones)
    Author,        \* Author[m]: the phone that creates m
    PageSize,      \* MAX_MEMORIES_PULL
    MaxEdits,      \* bound: edits and deletions, on phones and on the web
    MaxTroubles    \* bound: lost requests, lost answers and refusals

ASSUME SyncAssumption ==
    /\ Author \in [Memories -> Devices]
    /\ PageSize \in Nat \ {0}
    /\ MaxEdits \in Nat
    /\ MaxTroubles \in Nat

\* A phone and a database hold finitely many memories; "web" names no phone.
ASSUME MemoriesAssumption == IsFiniteSet(Memories) /\ "web" \notin Devices

VARIABLES
    rows,      \* user_memories, as committed
    log,       \* log[v]: what was written under version v, committed or not
    stmt,      \* the statements under way at the server
    entry,     \* the copies of each phone (cloudMemoryStore)
    dirty,     \* dirtyMemoryIds
    cursor,    \* memoryCursor
    sync,      \* the round of syncNow a phone is in
    born,      \* the memories created so far
    edits,     \* edits made so far
    troubles   \* troubles met so far

vars == <<rows, log, stmt, entry, dirty, cursor, sync, born, edits, troubles>>
server == <<rows, log, stmt>>
phone == <<entry, dirty, cursor, sync>>
budget == <<born, edits, troubles>>

-----------------------------------------------------------------------------
(* Rows and copies                                                         *)

\* A row that was never inserted has version 0, which is also the base a
\* phone sends for a copy the server has not numbered.
NoRow == [text |-> 0, version |-> 0, deleted |-> FALSE]
NoCopy == [held |-> FALSE, text |-> 0, version |-> 0, deleted |-> FALSE]

\* A tombstone keeps no text (purge_deleted_memory_text), so none is sent on.
RowType == {row \in [text : 0 .. MaxEdits, version : Nat, deleted : BOOLEAN] :
              row.deleted => row.text = 0}
CopyType == [held : BOOLEAN, text : 0 .. MaxEdits, version : Nat, deleted : BOOLEAN]
NoRows == [m \in Memories |-> NoRow]
NoCopies == [m \in Memories |-> NoCopy]

\* Mutant: the text stays in the row.
WrittenUnpurged(text, version, deleted) ==
    [text |-> text, version |-> version, deleted |-> deleted]

Written(text, version, deleted) ==
    [text |-> IF deleted THEN 0 ELSE text, version |-> version, deleted |-> deleted]

\* mapMemoryWireDelta
CopyOf(row) ==
    [held |-> TRUE, text |-> row.text, version |-> row.version, deleted |-> FALSE]

\* memorySyncContentMatches
Matches(left, right) == left.text = right.text /\ left.deleted = right.deleted

-----------------------------------------------------------------------------
(* Statements: each phone has the push it waits for and, after it stopped  *)
(* waiting, at most one that is still on its way; the web has one.         *)

Writers == (Devices \X {"now", "late"}) \cup {<<"web", "now">>}
Web == <<"web", "now">>

\* seen: the rows of the snapshot a waiting statement was started with
\* answer: per memory, what the handler says of the copy that was sent
Quiet == [stage |-> "none", items |-> NoCopies, seen |-> NoRows,
          answer |-> [m \in Memories |-> [kind |-> "none", row |-> NoRow]]]

Answers == [kind : {"none", "applied", "conflict", "rejected"}, row : RowType]

StmtType == [stage : {"none", "sent", "waiting", "written", "done"},
             items : [Memories -> CopyType],
             seen : [Memories -> RowType],
             answer : [Memories -> Answers]]

Writes(w) ==
    IF stmt[w].stage = "written"
    THEN {m \in Memories : stmt[w].answer[m].kind = "applied"} ELSE {}

Locked(m) == \E w \in Writers : m \in Writes(w)

SyncType == [pc : {"idle", "push", "pull"},
             sent : [Memories -> CopyType],
             dead : SUBSET Memories,
             read : BOOLEAN,
             page : [Memories -> RowType]]

Idle == [pc |-> "idle", sent |-> NoCopies, dead |-> {}, read |-> FALSE, page |-> NoRows]

TypeOK ==
    /\ rows \in [Memories -> RowType]
    /\ log \in Seq([memory : Memories, text : 0 .. MaxEdits, deleted : BOOLEAN,
                    overtaken : SUBSET Devices])
    /\ stmt \in [Writers -> StmtType]
    /\ entry \in [Devices -> [Memories -> CopyType]]
    /\ dirty \in [Devices -> SUBSET Memories]
    /\ cursor \in [Devices -> Nat]
    /\ sync \in [Devices -> SyncType]
    /\ born \in SUBSET Memories
    /\ edits \in 0 .. MaxEdits
    /\ troubles \in 0 .. MaxTroubles

Init ==
    /\ rows = NoRows
    /\ log = <<>>
    /\ stmt = [w \in Writers |-> Quiet]
    /\ entry = [d \in Devices |-> NoCopies]
    /\ dirty = [d \in Devices |-> {}]
    /\ cursor = [d \in Devices |-> 0]
    /\ sync = [d \in Devices |-> Idle]
    /\ born = {}
    /\ edits = 0
    /\ troubles = 0

-----------------------------------------------------------------------------
(* What the user does on a phone: the copy changes and its id is dirty     *)

Change(d, m, copy) ==
    /\ edits < MaxEdits
    /\ edits' = edits + 1
    /\ entry' = [entry EXCEPT ![d][m] = copy]
    /\ dirty' = [dirty EXCEPT ![d] = @ \cup {m}]
    /\ UNCHANGED <<server, cursor, sync, troubles>>

Unused(d) == {m \in Memories \ born : Author[m] = d}

\* A new id is fresh, so which of the unused ids it is does not matter.
AddMemory(d, m) ==
    /\ Unused(d) # {}
    /\ m = CHOOSE n \in Unused(d) : TRUE
    /\ born' = born \cup {m}
    /\ Change(d, m, [held |-> TRUE, text |-> edits + 1, version |-> 0, deleted |-> FALSE])

Shown(d, m) == entry[d][m].held /\ ~entry[d][m].deleted

UpdateMemory(d, m) ==
    /\ Shown(d, m)
    /\ Change(d, m, [entry[d][m] EXCEPT !.text = edits + 1])
    /\ UNCHANGED born

DeleteMemory(d, m) ==
    /\ Shown(d, m)
    /\ Change(d, m, [entry[d][m] EXCEPT !.deleted = TRUE])
    /\ UNCHANGED born

-----------------------------------------------------------------------------
(* A round: push                                                           *)

\* Mutant: a dirty id without a copy is passed over.
NoDeadIds(d) == {}

\* Dirty ids without a copy are dead: they are cleared when the push is over.
DeadIds(d) == {m \in dirty[d] : ~entry[d][m].held}

StartRound(d) ==
    LET live == {m \in dirty[d] : entry[d][m].held}
        sent == [m \in Memories |-> IF m \in live THEN entry[d][m] ELSE NoCopy]
    IN  /\ sync[d].pc = "idle"
        /\ IF live = {}
           THEN /\ dirty' = [dirty EXCEPT ![d] = @ \ DeadIds(d)]
                /\ sync' = [sync EXCEPT ![d] = [Idle EXCEPT !.pc = "pull"]]
                /\ UNCHANGED stmt
           ELSE /\ sync' = [sync EXCEPT ![d] = [Idle EXCEPT !.pc = "push", !.sent = sent,
                                                            !.dead = DeadIds(d)]]
                /\ stmt' = [stmt EXCEPT ![<<d, "now">>] = [Quiet EXCEPT !.stage = "sent",
                                                                        !.items = sent]]
                /\ UNCHANGED dirty
        /\ UNCHANGED <<rows, log, entry, cursor, budget>>

\* The compare-and-set of one pushed copy against a state of its row.
MayApply(item, row) ==
    /\ row.version = item.version
    /\ row.deleted => item.deleted

\* A statement waits for the writers of the rows its snapshot lets it change.
MustWait(w, seen) ==
    \E m \in Memories :
        /\ stmt[w].items[m].held
        /\ MayApply(stmt[w].items[m], seen[m])
        /\ Locked(m)

Rejectable(w) == {m \in Memories : stmt[w].items[m].held /\ ~stmt[w].items[m].deleted}

\* The answer about m: a conflict quotes the row as the snapshot holds it.
Answer(item, row, seen, refused, version) ==
    IF ~item.held THEN [kind |-> "none", row |-> NoRow]
    ELSE IF refused THEN [kind |-> "rejected", row |-> NoRow]
    ELSE IF MayApply(item, row)
         THEN [kind |-> "applied", row |-> Written(item.text, version, item.deleted)]
         ELSE [kind |-> "conflict", row |-> seen]

\* The write gate refuses some of the texts, and the statement writes the
\* copies that pass under the next numbers of the sequence, in any order.
Execute(w, seen, refused) ==
    LET item(m) == stmt[w].items[m]
        applied == {m \in Memories : item(m).held /\ m \notin refused
                                     /\ MayApply(item(m), rows[m])}
    IN  \E order \in {o \in [1 .. Cardinality(applied) -> applied] :
                        \A i, j \in DOMAIN o : o[i] = o[j] => i = j} :
            LET version(m) == Len(log) + (CHOOSE i \in DOMAIN order : order[i] = m)
                answer == [m \in Memories |->
                             Answer(item(m), rows[m], seen[m], m \in refused,
                                    IF m \in applied THEN version(m) ELSE 0)]
            IN  /\ log' = log \o [i \in DOMAIN order |->
                                    [memory |-> order[i], text |-> answer[order[i]].row.text,
                                     deleted |-> answer[order[i]].row.deleted,
                                     overtaken |-> {}]]
                /\ stmt' = [stmt EXCEPT ![w].stage = "written", ![w].answer = answer,
                                        ![w].seen = NoRows]

\* The handler runs; its statement waits when another holds one of its rows.
HandlePush(w) ==
    /\ stmt[w].stage = "sent"
    /\ \/ /\ ~MustWait(w, rows)
          /\ Execute(w, rows, {})
       \/ /\ MustWait(w, rows)
          /\ stmt' = [stmt EXCEPT ![w].stage = "waiting", ![w].seen = rows]
          /\ UNCHANGED log
    /\ UNCHANGED <<rows, phone, budget>>

HandleRefused(w) ==
    /\ stmt[w].stage = "sent"
    /\ ~MustWait(w, rows)
    /\ troubles < MaxTroubles
    /\ troubles' = troubles + 1
    /\ \E refused \in SUBSET Rejectable(w) \ {{}} : Execute(w, rows, refused)
    /\ UNCHANGED <<rows, phone, born, edits>>

Wake(w) ==
    /\ stmt[w].stage = "waiting"
    /\ ~MustWait(w, stmt[w].seen)
    /\ Execute(w, stmt[w].seen, {})
    /\ UNCHANGED <<rows, phone, budget>>

\* Nobody waits for the answer of a late statement, or of the web's.
Commit(w) ==
    /\ stmt[w].stage = "written"
    /\ rows' = [m \in Memories |-> IF m \in Writes(w) THEN stmt[w].answer[m].row ELSE rows[m]]
    /\ stmt' = [stmt EXCEPT ![w] = IF w[2] = "late" \/ w = Web THEN Quiet
                                   ELSE [@ EXCEPT !.stage = "done"]]
    /\ UNCHANGED <<log, phone, budget>>

\* PUT and DELETE of /api/memory/[id]: they ask for no version.
WebWrite(m, deleted) ==
    /\ edits < MaxEdits
    /\ edits' = edits + 1
    /\ stmt[Web].stage = "none"
    /\ rows[m].version # 0 /\ ~rows[m].deleted
    /\ ~Locked(m)
    /\ LET row == Written(edits + 1, Len(log) + 1, deleted)
       IN  /\ log' = Append(log, [memory |-> m, text |-> row.text, deleted |-> deleted,
                                  overtaken |-> {}])
           /\ stmt' = [stmt EXCEPT ![Web].stage = "written",
                                   ![Web].answer[m] = [kind |-> "applied", row |-> row]]
    /\ UNCHANGED <<rows, phone, born, troubles>>

\* How the phone takes the answer about one copy: what is left of the copy,
\* and whether its id is settled.
\* Mutant: an edit made while the push was under way is forgotten.
AfterAppliedBlind(sent, latest, row) ==
    [settled |-> TRUE, refetch |-> FALSE,
     copy |-> IF ~latest.held \/ sent.deleted THEN NoCopy
              ELSE [latest EXCEPT !.version = row.version]]

AfterApplied(sent, latest, row) ==
    LET settled == ~latest.held \/ Matches(sent, latest)
    IN  [settled |-> settled, refetch |-> FALSE,
         copy |-> IF ~latest.held \/ (sent.deleted /\ settled) THEN NoCopy
                  ELSE [latest EXCEPT !.version = row.version]]

AfterConflict(sent, latest, row) ==
    IF row.version = 0 \/ row.deleted
    THEN [settled |-> TRUE, refetch |-> FALSE, copy |-> NoCopy]
    ELSE IF latest.held /\ (sent.version = 0 \/ ~Matches(sent, latest))
    THEN [settled |-> FALSE, refetch |-> FALSE,
          copy |-> [latest EXCEPT !.version = row.version]]
    ELSE [settled |-> TRUE, refetch |-> FALSE, copy |-> CopyOf(row)]

AfterRejected(sent, latest) ==
    [settled |-> TRUE, refetch |-> sent.version # 0,
     copy |-> IF sent.version = 0 THEN NoCopy ELSE latest]

After(answer, sent, latest) ==
    CASE answer.kind = "applied"  -> AfterApplied(sent, latest, answer.row)
      [] answer.kind = "conflict" -> AfterConflict(sent, latest, answer.row)
      [] answer.kind = "rejected" -> AfterRejected(sent, latest)
      [] answer.kind = "none"     -> [settled |-> FALSE, refetch |-> FALSE, copy |-> latest]

\* The rest of pushMemory: one turn of the phone's event loop.
PushAnswered(d) ==
    LET w == <<d, "now">>
        after == [m \in Memories |-> After(stmt[w].answer[m], sync[d].sent[m], entry[d][m])]
    IN  /\ sync[d].pc = "push"
        /\ stmt[w].stage = "done"
        /\ entry' = [entry EXCEPT ![d] = [m \in Memories |-> after[m].copy]]
        /\ dirty' = [dirty EXCEPT ![d] =
                       @ \ (sync[d].dead \cup {m \in Memories : after[m].settled})]
        /\ cursor' = [cursor EXCEPT ![d] = IF \E m \in Memories : after[m].refetch THEN 0 ELSE @]
        /\ sync' = [sync EXCEPT ![d] = [Idle EXCEPT !.pc = "pull"]]
        /\ stmt' = [stmt EXCEPT ![w] = Quiet]
        /\ UNCHANGED <<rows, log, budget>>

-----------------------------------------------------------------------------
(* A round: pull                                                           *)

\* Mutant: the newest rows first.
PageNewest(since) ==
    LET above == {m \in Memories : rows[m].version > since}
    IN  {m \in above : Cardinality({n \in above : rows[n].version > rows[m].version}) < PageSize}

\* order by server_version asc limit PageSize
Page(since) ==
    LET above == {m \in Memories : rows[m].version > since}
    IN  {m \in above : Cardinality({n \in above : rows[n].version < rows[m].version}) < PageSize}

\* computeMemoryPullCursor: the highest delivered version
Frontier(since, page) ==
    LET versions == {page[m].version : m \in Memories} \cup {since}
    IN  CHOOSE v \in versions : \A u \in versions : u <= v

\* The handler reads a page.  Numbers below its frontier that are not yet
\* committed are overtaken: the phone will not ask for them again.
HandlePull(d) ==
    LET ids == Page(cursor[d])
        page == [m \in Memories |-> IF m \in ids THEN rows[m] ELSE NoRow]
        uncommitted == UNION {{stmt[w].answer[m].row.version : m \in Writes(w)} : w \in Writers}
    IN  /\ sync[d].pc = "pull"
        /\ ~sync[d].read
        /\ sync' = [sync EXCEPT ![d].read = TRUE, ![d].page = page]
        /\ log' = [v \in DOMAIN log |->
                     IF v \in uncommitted /\ v < Frontier(cursor[d], page)
                     THEN [log[v] EXCEPT !.overtaken = @ \cup {d}] ELSE log[v]]
        /\ UNCHANGED <<rows, stmt, entry, dirty, cursor, budget>>

\* applyMemoryDeltas: a tombstone wins, a dirty copy keeps its text and takes
\* the new base, any other row replaces the copy.
Merged(copy, row, isDirty) ==
    IF row.version = 0 THEN copy
    ELSE IF row.deleted THEN NoCopy
    ELSE IF isDirty /\ copy.held THEN [copy EXCEPT !.version = row.version]
    ELSE CopyOf(row)

Delivered(page) == {m \in Memories : page[m].version # 0}

PullAnswered(d) ==
    LET page == sync[d].page
    IN  /\ sync[d].read
        /\ entry' = [entry EXCEPT ![d] =
                       [m \in Memories |-> Merged(entry[d][m], page[m], m \in dirty[d])]]
        /\ cursor' = [cursor EXCEPT ![d] = Frontier(@, page)]
        /\ sync' = [sync EXCEPT ![d] =
                      IF Cardinality(Delivered(page)) >= PageSize
                      THEN [Idle EXCEPT !.pc = "pull"] ELSE Idle]
        /\ UNCHANGED <<server, dirty, budget>>

-----------------------------------------------------------------------------
(* Troubles: the round is given up; it throws at the first lost answer.    *)

Trouble ==
    /\ troubles < MaxTroubles
    /\ troubles' = troubles + 1
    /\ UNCHANGED <<born, edits>>

GiveUp(d) == sync' = [sync EXCEPT ![d] = Idle]

\* The push never arrived, or its answer is lost.
PushLost(d) ==
    /\ sync[d].pc = "push"
    /\ stmt[<<d, "now">>].stage \in {"sent", "done"}
    /\ stmt' = [stmt EXCEPT ![<<d, "now">>] = Quiet]
    /\ GiveUp(d)
    /\ Trouble
    /\ UNCHANGED <<rows, log, entry, dirty, cursor>>

\* The phone stops waiting, or is killed, and the push goes on without it.
PushOutlived(d) ==
    /\ sync[d].pc = "push"
    /\ stmt[<<d, "now">>].stage \in {"sent", "waiting", "written"}
    /\ stmt[<<d, "late">>].stage = "none"
    /\ stmt' = [stmt EXCEPT ![<<d, "late">>] = stmt[<<d, "now">>], ![<<d, "now">>] = Quiet]
    /\ GiveUp(d)
    /\ Trouble
    /\ UNCHANGED <<rows, log, entry, dirty, cursor>>

PullLost(d) ==
    /\ sync[d].pc = "pull"
    /\ GiveUp(d)
    /\ Trouble
    /\ UNCHANGED <<server, entry, dirty, cursor>>

-----------------------------------------------------------------------------
ServerStep(w) == HandlePush(w) \/ HandleRefused(w) \/ Wake(w) \/ Commit(w)

PhoneStep(d) ==
    \/ StartRound(d) \/ PushAnswered(d) \/ HandlePull(d) \/ PullAnswered(d)
    \/ PushLost(d) \/ PushOutlived(d) \/ PullLost(d)

UserStep(m) ==
    \/ \E d \in Devices : AddMemory(d, m) \/ UpdateMemory(d, m) \/ DeleteMemory(d, m)
    \/ \E deleted \in BOOLEAN : WebWrite(m, deleted)

Next ==
    \/ \E w \in Writers : ServerStep(w)
    \/ \E d \in Devices : PhoneStep(d)
    \/ \E m \in Memories : UserStep(m)

\* The loop of the phone starts a round every 30 seconds while the
\* application is active, and statements and answers take their course.
Fairness ==
    /\ \A w \in Writers : WF_vars(HandlePush(w) \/ Wake(w) \/ Commit(w))
    /\ \A d \in Devices :
          WF_vars(StartRound(d) \/ PushAnswered(d) \/ HandlePull(d) \/ PullAnswered(d))

Spec == Init /\ [][Next]_vars
FairSpec == Spec /\ Fairness

-----------------------------------------------------------------------------
(* Properties                                                              *)

Clean(d, m) == m \notin dirty[d]

\* The text of a change, or the deletion, has been written to its row.
WasStored(m, copy) ==
    \E v \in DOMAIN log :
        /\ log[v].memory = m
        /\ log[v].deleted = copy.deleted
        /\ copy.deleted \/ log[v].text = copy.text

\* A change leaves the dirty ids only when it was stored or the server turned
\* the push down: one made while the push of an older text was under way waits
\* for a push of its own, although the answer names its id.
StoredOrTurnedDown ==
    [][\A d \in Devices : \A m \in dirty[d] \ dirty'[d] :
          entry[d][m].held =>
              \/ WasStored(m, entry[d][m])
              \/ stmt[<<d, "now">>].answer[m].kind \in {"conflict", "rejected"}]_vars

\* What a phone shows of a row that its cursor has passed is the row, or
\* something later.
IsDelivered(d, m) ==
    IF rows[m].deleted THEN ~entry[d][m].held
    ELSE /\ entry[d][m].held
         /\ entry[d][m].version >= rows[m].version
         /\ entry[d][m].version = rows[m].version => entry[d][m].text = rows[m].text

BelowTheCursor(d) ==
    {m \in Memories \ dirty[d] : rows[m].version # 0 /\ rows[m].version <= cursor[d]}

\* Every row the cursor has passed was delivered.  The comment above
\* computeMemoryPullCursor says so; a statement that takes its number before,
\* and commits after, a statement with a higher one refutes it.
EveryRowIsDelivered ==
    \A d \in Devices : \A m \in BelowTheCursor(d) : IsDelivered(d, m)

\* Nothing else is missed: pages, conflicts, refusals, rebased changes, lost
\* answers and pushes that outlive their caller leave no row behind the cursor
\* that the phone does not show, unless its number was overtaken.
DeliveredUnlessOvertaken ==
    \A d \in Devices : \A m \in BelowTheCursor(d) :
        IsDelivered(d, m) \/ d \in log[rows[m].version].overtaken

\* Once the user stops, every change made on a phone is settled, also when
\* the memory was deleted elsewhere in the meantime.
EverythingSettles == <>[](\A d \in Devices : dirty[d] = {})

\* The phone that alone changes a memory keeps its own last change.  An answer
\* that is lost refutes it: the retried push meets the row its predecessor
\* wrote, and the older text is taken for the winner.
OwnEditSurvives ==
    [][\A d \in Devices, m \in Memories :
          (/\ entry[d][m].held /\ entry'[d][m].held
           /\ m \in dirty[d] /\ m \notin dirty'[d]
           /\ troubles' = troubles
           /\ \A e \in Devices \ {d} : entry[e][m].version = 0
           /\ \A v \in DOMAIN log : log[v].memory = m => log[v].text <= entry[d][m].text)
          => entry'[d][m].text = entry[d][m].text]_vars

=============================================================================
