--------------------------- MODULE MemorySyncProofs ---------------------------
(***************************************************************************)
(* Proofs about MemorySync, for every number of phones, every finite       *)
(* number of memories, and every size of a page.                           *)
(*                                                                         *)
(* What a phone shows of a row is right, is yet to come, or is lost with a *)
(* number that was overtaken: the view.  It is kept because of what is     *)
(* known, at every moment, of a push that is answered only later, of a     *)
(* page that was read and not yet taken over, and of the numbers that are  *)
(* taken and not yet committed.                                            *)
(***************************************************************************)
EXTENDS MemorySync, FunctionSums, SequenceTheorems, TLAPS

LogType == [memory : Memories, text : 0 .. MaxEdits, deleted : BOOLEAN,
            overtaken : SUBSET Devices]

(* How far the phone will have asked when what it has read is taken over. *)
Reach(d) == IF sync[d].read THEN Frontier(cursor[d], sync[d].page) ELSE cursor[d]

(* No version was made up, and no cursor is beyond what was numbered. *)
Numbered ==
  /\ \A m \in Memories : rows[m].version <= Len(log)
  /\ \A w \in Writers, m \in Memories :
       stmt[w].seen[m].version <= Len(log) /\ stmt[w].answer[m].row.version <= Len(log)
  /\ \A d \in Devices, m \in Memories : sync[d].page[m].version <= Len(log)
  /\ \A d \in Devices : Reach(d) \in Nat /\ cursor[d] <= Reach(d) /\ Reach(d) <= Len(log)

(* A memory nobody has made is nowhere. *)
Unborn ==
  /\ \A m \in Memories : rows[m].version # 0 => m \in born
  /\ \A w \in Writers, m \in Memories :
       stmt[w].items[m].held \/ stmt[w].answer[m].kind = "applied" => m \in born
  /\ \A d \in Devices :
       /\ dirty[d] \subseteq born /\ sync[d].dead \subseteq born
       /\ \A m \in Memories : entry[d][m].held \/ sync[d].sent[m].held
                                \/ sync[d].page[m].version # 0 => m \in born

(* The number of a row that is written and not committed is its own, and a phone *)
(* that has asked beyond it is in its log entry.                                  *)
Pending ==
  \A w \in Writers : \A m \in Writes(w) :
    /\ stmt[w].answer[m].row.version \in DOMAIN log
    /\ log[stmt[w].answer[m].row.version].memory = m
    /\ \A n \in Memories : rows[n].version # stmt[w].answer[m].row.version
    /\ \A u \in Writers \ {w} : \A n \in Writes(u) :
         stmt[u].answer[n].row.version # stmt[w].answer[m].row.version
    /\ \A d \in Devices : \/ stmt[w].answer[m].row.version > Reach(d)
                          \/ d \in log[stmt[w].answer[m].row.version].overtaken

(* A row that the phone is still to be given, or never will. *)
Fresh(d, m) ==
  \/ rows[m].version > cursor[d]
  \/ rows[m].version # 0 /\ d \in log[rows[m].version].overtaken

(* What a phone that waits for the answer of its push has kept of what it sent. *)
Pushing(d) ==
  /\ stmt[<<d, "now">>].stage # "none" <=> sync[d].pc = "push"
  /\ sync[d].read => sync[d].pc = "pull"
  /\ sync[d].pc = "push" =>
       /\ stmt[<<d, "now">>].items = sync[d].sent
       /\ \A m \in Memories : sync[d].sent[m].held =>
            m \in dirty[d] /\ entry[d][m].held /\ entry[d][m].version = sync[d].sent[m].version
       /\ \A m \in sync[d].dead : ~entry[d][m].held

(* What the answer of that push says of a row is so, or the row is fresh. *)
Answering(d) ==
  LET s == stmt[<<d, "now">>]
  IN  /\ s.stage = "waiting" => \A m \in Memories : s.seen[m] = rows[m] \/ Fresh(d, m)
      /\ s.stage \in {"written", "done"} =>
           \A m \in Memories :
             /\ s.answer[m].kind # "none" => s.items[m].held
             /\ s.answer[m].kind = "conflict" => s.answer[m].row = rows[m] \/ Fresh(d, m)
             /\ s.answer[m].kind = "applied" => WasStored(m, s.items[m])
      /\ s.stage = "done" =>
           \A m \in Memories : s.answer[m].kind = "applied" => Fresh(d, m)

(* What a page that was read says of a row is so, or the row lies before or beyond it. *)
Reading(d) ==
  sync[d].read =>
    \A m \in Memories :
      \/ sync[d].page[m] = rows[m]
      \/ rows[m].version > Reach(d)
      \/ rows[m].version # 0 /\ d \in log[rows[m].version].overtaken
      \/ sync[d].page[m].version = 0 /\ rows[m].version <= cursor[d]

(* What the phone shows of a row is the row, or the row is fresh. *)
View(d, m) ==
  \/ rows[m].version = 0
  \/ Fresh(d, m)
  \/ rows[m].deleted /\ ~entry[d][m].held
  \/ /\ ~rows[m].deleted /\ entry[d][m].held /\ entry[d][m].version = rows[m].version
     /\ m \in dirty[d] \/ entry[d][m].text = rows[m].text

PhoneInv(d) ==
  Pushing(d) /\ Answering(d) /\ Reading(d) /\ \A m \in Memories : View(d, m)

(* A statement that is not under way leaves nothing behind. *)
Resting == \A w \in Writers : stmt[w].stage = "none" => stmt[w] = Quiet

IInv ==
  /\ TypeOK /\ Numbered /\ Unborn /\ Pending /\ Resting
  /\ \A d \in Devices : PhoneInv(d)

-------------------------------------------------------------------------------
(* The server's numbers. *)

(* The statements of a phone are two, and neither is the web's. *)
LEMMA WriterKinds ==
  /\ Web \in Writers /\ Web = <<"web", "now">>
  /\ \A d \in Devices : /\ <<d, "now">> \in Writers /\ <<d, "late">> \in Writers
                        /\ <<d, "now">> # <<d, "late">> /\ <<d, "now">> # Web /\ <<d, "late">> # Web
                        /\ <<d, "now">>[2] = "now" /\ <<d, "late">>[2] = "late"
  /\ \A d, e \in Devices : d # e => <<d, "now">> # <<e, "now">> /\ <<d, "late">> # <<e, "now">>
BY MemoriesAssumption DEF Writers, Web

(* A function on the first naturals is a sequence. *)
LEMMA FunctionIsSequence ==
  ASSUME NEW S, NEW n \in Nat, NEW f \in [1 .. n -> S]
  PROVE  f \in Seq(S) /\ Len(f) = n /\ DOMAIN f = 1 .. n
OBVIOUS

(* A bounded set of naturals that is not empty has a greatest element. *)
LEMMA Greatest ==
  ASSUME NEW T, T \subseteq Nat, T # {}, NEW L \in Nat, \A v \in T : v <= L
  PROVE  \E v \in T : \A u \in T : u <= v
<1> DEFINE Gaps == {n \in Nat : \E v \in T : n = L - v}
<1>1. \A v \in T : v \in Nat /\ L - v \in Nat
  OBVIOUS
<1>2. Gaps \subseteq Nat /\ Gaps # {}
  BY <1>1
<1> HIDE DEF Gaps
<1>3. PICK n \in Gaps : \A m \in Gaps : n <= m
  BY <1>2, LeastNatural
<1>4. PICK v \in T : n = L - v
  BY DEF Gaps
<1>5. \A u \in T : L - u \in Gaps
  BY <1>1 DEF Gaps
<1>6. \A u \in T : u <= v
  BY <1>1, <1>3, <1>4, <1>5
<1> QED BY <1>6

(* The frontier of a page is the cursor or the highest version on it. *)
LEMMA FrontierFacts ==
  ASSUME NEW since \in Nat, NEW page \in [Memories -> RowType], NEW L \in Nat,
         since <= L, \A m \in Memories : page[m].version <= L
  PROVE  /\ Frontier(since, page) \in Nat
         /\ since <= Frontier(since, page) /\ Frontier(since, page) <= L
         /\ \A m \in Memories : page[m].version <= Frontier(since, page)
         /\ \/ Frontier(since, page) = since
            \/ \E m \in Memories : Frontier(since, page) = page[m].version
<1> DEFINE versions == {page[m].version : m \in Memories} \cup {since}
           f == CHOOSE v \in versions : \A u \in versions : u <= v
<1>1. \A m \in Memories : page[m].version \in Nat
  BY DEF RowType
<1>2. versions \subseteq Nat /\ versions # {} /\ \A v \in versions : v <= L
  BY <1>1
<1>3. f \in versions /\ \A u \in versions : u <= f
  <2> HIDE DEF versions
  <2>1. \E v \in versions : \A u \in versions : u <= v
    BY <1>2, Greatest
  <2> QED BY <2>1
<1>4. Frontier(since, page) = f
  BY DEF Frontier
<1> HIDE DEF f
<1> QED BY <1>1, <1>2, <1>3, <1>4

(* A page holds every row between the cursor and its frontier. *)
LEMMA PageFacts ==
  ASSUME NEW since \in Nat, rows \in [Memories -> RowType],
         NEW m \in Memories, rows[m].version > since,
         NEW n \in Page(since), rows[m].version <= rows[n].version
  PROVE  m \in Page(since)
<1> DEFINE above == {k \in Memories : rows[k].version > since}
           under(k) == {j \in above : rows[j].version < rows[k].version}
<1>1. n \in above /\ Cardinality(under(n)) < PageSize
  BY DEF Page
<1>2. \A k \in Memories : rows[k].version \in Nat
  BY DEF RowType
<1>3. under(m) \subseteq under(n) /\ m \in above
  BY <1>1, <1>2
<1>4. IsFiniteSet(under(n)) /\ IsFiniteSet(under(m))
  BY FS_Subset, MemoriesAssumption
<1>5. /\ Cardinality(under(m)) <= Cardinality(under(n))
      /\ Cardinality(under(m)) \in Nat /\ Cardinality(under(n)) \in Nat
  BY <1>3, <1>4, FS_Subset, FS_CardinalityType
<1>6. Cardinality(under(m)) < PageSize
  BY <1>1, <1>5, SyncAssumption
<1> QED BY <1>3, <1>6 DEF Page

-------------------------------------------------------------------------------
(* What a statement writes. *)

(* A statement that writes takes new numbers, each for a row of its own, and says *)
(* what it wrote, what it refused, and what its snapshot shows of the rest.        *)
Wrote(w, seen) ==
  /\ log' \in Seq(LogType) /\ Len(log) <= Len(log')
  /\ \A v \in DOMAIN log : log'[v] = log[v]
  /\ \A u \in Writers \ {w} : stmt'[u] = stmt[u]
  /\ stmt' \in [Writers -> StmtType]
  /\ stmt'[w].stage = "written" /\ stmt'[w].seen = NoRows /\ stmt'[w].items = stmt[w].items
  /\ \A m \in Memories :
       /\ stmt'[w].answer[m].row.version <= Len(log')
       /\ stmt'[w].answer[m].kind = "conflict" => stmt'[w].answer[m].row = seen[m]
       /\ stmt'[w].answer[m].kind = "applied" =>
            /\ stmt'[w].answer[m].row.version > Len(log)
            /\ log'[stmt'[w].answer[m].row.version].memory = m

(* A push that runs writes what it sent, and answers only about what it sent. *)
LEMMA ExecuteShape ==
  ASSUME TypeOK, NEW w \in Writers, NEW seen \in [Memories -> RowType], NEW refused,
         \A m \in Memories : seen[m].version <= Len(log),
         Execute(w, seen, refused)
  PROVE  /\ Wrote(w, seen)
         /\ \A m \in Memories :
              /\ stmt'[w].answer[m].kind # "none" => stmt[w].items[m].held
              /\ stmt'[w].answer[m].kind = "applied" => WasStored(m, stmt[w].items[m])'
<1> DEFINE item(m) == stmt[w].items[m]
           applied == {m \in Memories : item(m).held /\ m \notin refused /\ MayApply(item(m), rows[m])}
<1>0. /\ log \in Seq(LogType) /\ Len(log) \in Nat /\ DOMAIN log = 1 .. Len(log)
      /\ stmt \in [Writers -> StmtType] /\ stmt[w] \in StmtType
      /\ \A m \in Memories : item(m) \in CopyType
  BY DEF TypeOK, LogType, StmtType
<1>1. IsFiniteSet(applied) /\ Cardinality(applied) \in Nat
  BY FS_Subset, FS_CardinalityType, MemoriesAssumption
<1>2. PICK order \in [1 .. Cardinality(applied) -> applied] :
        /\ \A i, j \in DOMAIN order : order[i] = order[j] => i = j
        /\ LET version(m) == Len(log) + (CHOOSE i \in DOMAIN order : order[i] = m)
               answer == [m \in Memories |->
                            Answer(item(m), rows[m], seen[m], m \in refused,
                                   IF m \in applied THEN version(m) ELSE 0)]
           IN  /\ log' = log \o [i \in DOMAIN order |->
                                   [memory |-> order[i], text |-> answer[order[i]].row.text,
                                    deleted |-> answer[order[i]].row.deleted, overtaken |-> {}]]
               /\ stmt' = [stmt EXCEPT ![w].stage = "written", ![w].answer = answer,
                                       ![w].seen = NoRows]
  BY ZenonT(40) DEF Execute
<1> DEFINE n == Cardinality(applied)
           place(m) == CHOOSE i \in DOMAIN order : order[i] = m
           answer == [m \in Memories |->
                        Answer(item(m), rows[m], seen[m], m \in refused,
                               IF m \in applied THEN Len(log) + place(m) ELSE 0)]
           lines == [i \in DOMAIN order |->
                       [memory |-> order[i], text |-> answer[order[i]].row.text,
                        deleted |-> answer[order[i]].row.deleted, overtaken |-> {}]]
<1>3. log' = log \o lines
      /\ stmt' = [stmt EXCEPT ![w].stage = "written", ![w].answer = answer, ![w].seen = NoRows]
  BY <1>2, Zenon
<1>4. DOMAIN order = 1 .. n
  OBVIOUS
<1>5. \A m \in applied : place(m) \in 1 .. n /\ order[place(m)] = m
  <2>1. order \in Injection(1 .. n, applied)
    BY <1>2, <1>4, Zenon DEF Injection, IsInjective
  <2>2. Cardinality(1 .. n) = n
    <3>1. n \in Nat
      BY <1>1
    <3> HIDE DEF n
    <3> QED BY <3>1, FS_Interval
  <2>3. order \in Surjection(1 .. n, applied)
    <3> HIDE DEF applied, n
    <3> QED BY <1>1, <2>1, <2>2, FS_Injection DEF n
  <2>4. ASSUME NEW m \in applied PROVE \E i \in 1 .. n : order[i] = m
    BY <2>3 DEF Surjection
  <2> QED BY <1>4, <2>4
<1> HIDE DEF place, n, applied
<1>6. \A m \in Memories :
        /\ m \in applied => item(m).held /\ answer[m] = [kind |-> "applied",
                 row |-> Written(item(m).text, Len(log) + place(m), item(m).deleted)]
        /\ m \notin applied => \/ answer[m] = [kind |-> "none", row |-> NoRow]
                               \/ item(m).held /\ answer[m] = [kind |-> "rejected", row |-> NoRow]
                               \/ item(m).held /\ answer[m] = [kind |-> "conflict", row |-> seen[m]]
  BY DEF Answer, applied
<1> HIDE DEF answer
<1>7. \A m \in applied :
        /\ m \in Memories /\ Len(log) + place(m) \in Nat
        /\ Len(log) + place(m) > Len(log) /\ Len(log) + place(m) <= Len(log) + n
  BY <1>0, <1>1, <1>5 DEF applied, n
<1>8. \A m \in Memories :
        /\ item(m).text \in 0 .. MaxEdits /\ item(m).deleted \in BOOLEAN /\ item(m).held \in BOOLEAN
        /\ seen[m] \in RowType /\ NoRow \in RowType
  BY <1>0, SyncAssumption DEF CopyType, RowType, NoRow
<1>9. \A m \in applied : answer[m].row \in RowType /\ answer[m].row.version = Len(log) + place(m)
                         /\ answer[m].kind = "applied"
                         /\ answer[m].row.deleted = item(m).deleted
                         /\ answer[m].row.text = IF item(m).deleted THEN 0 ELSE item(m).text
  <2> SUFFICES ASSUME NEW m \in applied
               PROVE  /\ answer[m].row \in RowType /\ answer[m].row.version = Len(log) + place(m)
                      /\ answer[m].kind = "applied" /\ answer[m].row.deleted = item(m).deleted
                      /\ answer[m].row.text = IF item(m).deleted THEN 0 ELSE item(m).text
    OBVIOUS
  <2>1. answer[m] = [kind |-> "applied",
                     row |-> Written(item(m).text, Len(log) + place(m), item(m).deleted)]
    BY <1>6, <1>7
  <2>2. 0 \in 0 .. MaxEdits
    BY SyncAssumption
  <2> QED BY <1>7, <1>8, <2>1, <2>2 DEF Written, RowType
<1> HIDE DEF item
<1>10. \A m \in Memories : answer[m] \in Answers
  <2> SUFFICES ASSUME NEW m \in Memories PROVE answer[m] \in Answers
    OBVIOUS
  <2>1. CASE m \in applied
    <3>1. PICK row \in RowType : answer[m] = [kind |-> "applied", row |-> row]
      <4> DEFINE row == Written(item(m).text, Len(log) + place(m), item(m).deleted)
      <4>1. answer[m] = [kind |-> "applied", row |-> row] /\ answer[m].row \in RowType
        BY <1>6, <1>9, <2>1
      <4> HIDE DEF row
      <4> QED BY <4>1
    <3> QED BY <3>1 DEF Answers
  <2>2. CASE m \notin applied
    <3>1. PICK kind \in {"none", "rejected", "conflict"}, row \in RowType :
            answer[m] = [kind |-> kind, row |-> row]
      <4>1. /\ NoRow \in RowType /\ seen[m] \in RowType
            /\ \/ answer[m] = [kind |-> "none", row |-> NoRow]
               \/ answer[m] = [kind |-> "rejected", row |-> NoRow]
               \/ answer[m] = [kind |-> "conflict", row |-> seen[m]]
        BY <1>6, <1>8, <2>2
      <4> QED BY <4>1, Zenon
    <3> QED BY <3>1 DEF Answers
  <2> QED BY <2>1, <2>2
<1>11. /\ stmt'[w].stage = "written" /\ stmt'[w].seen = NoRows /\ stmt'[w].items = stmt[w].items
       /\ stmt'[w].answer = answer
       /\ \A u \in Writers \ {w} : stmt'[u] = stmt[u]
       /\ stmt' \in [Writers -> StmtType]
  <2> DEFINE s == [stmt[w] EXCEPT !.stage = "written", !.answer = answer, !.seen = NoRows]
  <2>1. stmt' = [stmt EXCEPT ![w] = s]
    BY <1>3
  <2>2. answer \in [Memories -> Answers] /\ NoRows \in [Memories -> RowType]
    BY <1>8, <1>10 DEF answer, NoRows
  <2>3. /\ s \in StmtType /\ s.stage = "written" /\ s.seen = NoRows
        /\ s.items = stmt[w].items /\ s.answer = answer
    BY <1>0, <2>2 DEF StmtType
  <2> HIDE DEF s
  <2> QED BY <1>0, <2>1, <2>3
<1>12. /\ lines \in [1 .. n -> LogType]
       /\ \A i \in 1 .. n : lines[i].memory = order[i] /\ lines[i].text = answer[order[i]].row.text
                            /\ lines[i].deleted = answer[order[i]].row.deleted
  <2>1. \A i \in 1 .. n : order[i] \in applied /\ order[i] \in Memories
    BY DEF applied, n
  <2>2. \A i \in 1 .. n : answer[order[i]].row \in RowType
    BY <1>9, <2>1
  <2>3. \A i \in 1 .. n : answer[order[i]].row.text \in 0 .. MaxEdits
                          /\ answer[order[i]].row.deleted \in BOOLEAN
    BY <2>2 DEF RowType
  <2> QED BY <1>4, <2>1, <2>3 DEF LogType
<1>13. /\ log' \in Seq(LogType) /\ Len(log') = Len(log) + n /\ n \in Nat
       /\ \A v \in 1 .. Len(log) : log'[v] = log[v]
       /\ \A i \in 1 .. n : log'[Len(log) + i] = lines[i]
  <2> HIDE DEF lines
  <2>1. n \in Nat
    BY <1>1 DEF n
  <2>2. lines \in Seq(LogType) /\ Len(lines) = n
    BY <1>12, <2>1, FunctionIsSequence
  <2>3. log' = log \o lines
    BY <1>3
  <2>4. /\ log \o lines \in Seq(LogType) /\ Len(log \o lines) = Len(log) + n
        /\ \A i \in 1 .. Len(log) + n :
             (log \o lines)[i] = IF i <= Len(log) THEN log[i] ELSE lines[i - Len(log)]
    BY <1>0, <2>2, ConcatProperties
  <2>5. \A i \in 1 .. Len(log) : i \in 1 .. Len(log) + n /\ i <= Len(log)
    BY <1>0, <2>1
  <2>6. \A i \in 1 .. n : Len(log) + i \in 1 .. Len(log) + n /\ ~(Len(log) + i <= Len(log))
                          /\ (Len(log) + i) - Len(log) = i
    BY <1>0, <2>1
  <2> QED BY <2>1, <2>3, <2>4, <2>5, <2>6
<1>14. ASSUME NEW m \in applied
       PROVE  /\ answer[m].row.version \in DOMAIN log'
              /\ log'[answer[m].row.version].memory = m
              /\ log'[answer[m].row.version].text = answer[m].row.text
              /\ log'[answer[m].row.version].deleted = answer[m].row.deleted
  <2>1. /\ place(m) \in 1 .. n /\ order[place(m)] = m
        /\ answer[m].row.version = Len(log) + place(m)
    BY <1>5, <1>9 DEF n
  <2>2. log'[Len(log) + place(m)] = lines[place(m)]
    BY <1>13, <2>1
  <2>3. DOMAIN log' = 1 .. Len(log')
    BY <1>13
  <2>4. Len(log) + place(m) \in 1 .. Len(log')
    BY <1>0, <1>13, <2>1
  <2> HIDE DEF lines
  <2> QED BY <1>12, <2>1, <2>2, <2>3, <2>4
<1> HIDE DEF lines
<1>15. ASSUME NEW m \in Memories
       PROVE  /\ answer[m].row.version <= Len(log')
              /\ answer[m].kind = "conflict" => answer[m].row = seen[m]
              /\ answer[m].kind = "applied" => m \in applied
              /\ answer[m].kind # "none" => item(m).held
  <2>1. CASE m \in applied
    BY <1>0, <1>6, <1>7, <1>9, <1>13, <2>1
  <2>2. CASE m \notin applied
    <3>1. NoRow.version = 0 /\ seen[m].version \in Nat /\ seen[m].version <= Len(log)
      BY <1>8 DEF NoRow, RowType
    <3>2. NoRow.version <= Len(log') /\ seen[m].version <= Len(log')
      BY <1>0, <1>13, <3>1
    <3>3. \/ answer[m] = [kind |-> "none", row |-> NoRow]
          \/ item(m).held /\ answer[m] = [kind |-> "rejected", row |-> NoRow]
          \/ item(m).held /\ answer[m] = [kind |-> "conflict", row |-> seen[m]]
      BY <1>6, <2>2
    <3> QED BY <3>2, <3>3
  <2> QED BY <2>1, <2>2
<1>16. Wrote(w, seen)
  <2>1. \A m \in applied : answer[m].row.version > Len(log)
    BY <1>7, <1>9
  <2>2. Len(log) <= Len(log')
    BY <1>0, <1>13
  <2> QED BY <1>0, <1>11, <1>13, <1>14, <1>15, <2>1, <2>2 DEF Wrote
<1>17. ASSUME NEW m \in Memories, answer[m].kind = "applied"
       PROVE  WasStored(m, stmt[w].items[m])'
  <2>1. m \in applied
    BY <1>15, <1>17
  <2>2. /\ answer[m].row.deleted = stmt[w].items[m].deleted
        /\ answer[m].row.text = IF stmt[w].items[m].deleted THEN 0 ELSE stmt[w].items[m].text
    BY <1>9, <2>1 DEF item
  <2>3. \E v \in DOMAIN log' : /\ log'[v].memory = m
                               /\ log'[v].deleted = stmt[w].items[m].deleted
                               /\ stmt[w].items[m].deleted \/ log'[v].text = stmt[w].items[m].text
    BY <1>14, <2>1, <2>2
  <2>4. stmt'[w].items = stmt[w].items
    BY <1>11
  <2> QED BY <2>3, <2>4 DEF WasStored
<1> QED BY <1>11, <1>15, <1>16, <1>17 DEF item

(* A write of the web takes one number, for a row that is there. *)
LEMMA WebWriteShape ==
  ASSUME TypeOK, Resting, NEW m \in Memories, NEW deleted \in BOOLEAN, WebWrite(m, deleted)
  PROVE  /\ Wrote(Web, NoRows)
         /\ \A n \in Memories : stmt'[Web].answer[n].kind = "applied" => rows[n].version # 0
         /\ rows' = rows /\ UNCHANGED phone /\ born' = born /\ troubles' = troubles
         /\ edits' \in 0 .. MaxEdits
<1> DEFINE row == Written(edits + 1, Len(log) + 1, deleted)
           line == [memory |-> m, text |-> row.text, deleted |-> deleted, overtaken |-> {}]
           answer == [stmt[Web].answer EXCEPT ![m] = [kind |-> "applied", row |-> row]]
           s == [stmt[Web] EXCEPT !.stage = "written", !.answer = answer]
<1>0. /\ log \in Seq(LogType) /\ Len(log) \in Nat /\ DOMAIN log = 1 .. Len(log)
      /\ stmt \in [Writers -> StmtType] /\ Web \in Writers /\ edits \in 0 .. MaxEdits
      /\ MaxEdits \in Nat
  BY WriterKinds, SyncAssumption DEF TypeOK, LogType
<1>1. /\ stmt[Web] = Quiet /\ rows[m].version # 0 /\ edits < MaxEdits
      /\ log' = Append(log, line)
      /\ stmt' = [stmt EXCEPT ![Web].stage = "written",
                              ![Web].answer[m] = [kind |-> "applied", row |-> row]]
      /\ rows' = rows /\ UNCHANGED phone /\ born' = born /\ troubles' = troubles /\ edits' = edits + 1
  BY <1>0 DEF WebWrite, Resting
<1>2. /\ row \in RowType /\ row.version = Len(log) + 1 /\ row.text \in 0 .. MaxEdits
      /\ row.deleted = deleted /\ edits' \in 0 .. MaxEdits
  <2>1. edits + 1 \in 0 .. MaxEdits /\ 0 \in 0 .. MaxEdits /\ Len(log) + 1 \in Nat
    BY <1>0, <1>1
  <2> QED BY <1>1, <2>1 DEF Written, RowType
<1> HIDE DEF row
<1>3. line \in LogType /\ line.memory = m
  BY <1>2 DEF LogType
<1> HIDE DEF line
<1>4. /\ log' \in Seq(LogType) /\ Len(log') = Len(log) + 1
      /\ \A v \in 1 .. Len(log) : log'[v] = log[v]
      /\ log'[Len(log) + 1] = line
  BY <1>0, <1>1, <1>3, AppendProperties
<1>5. /\ Quiet.answer \in [Memories -> Answers] /\ Quiet.seen = NoRows
      /\ \A n \in Memories : Quiet.answer[n] = [kind |-> "none", row |-> NoRow]
  BY SyncAssumption DEF Quiet, Answers, RowType, NoRow
<1>6. /\ answer \in [Memories -> Answers]
      /\ answer[m] = [kind |-> "applied", row |-> row]
      /\ \A n \in Memories \ {m} : answer[n] = [kind |-> "none", row |-> NoRow]
  <2>1. [kind |-> "applied", row |-> row] \in Answers
    BY <1>2 DEF Answers
  <2> QED BY <1>1, <1>5, <2>1
<1> HIDE DEF answer
<1>7. stmt' = [stmt EXCEPT ![Web] = s]
  BY <1>0, <1>1 DEF answer, StmtType
<1>8. /\ s \in StmtType /\ s.stage = "written" /\ s.seen = NoRows
      /\ s.items = stmt[Web].items /\ s.answer = answer
  <2>1. stmt[Web] \in StmtType /\ stmt[Web].seen = NoRows
    BY <1>0, <1>1, <1>5
  <2> QED BY <1>6, <2>1 DEF StmtType
<1> HIDE DEF s
<1>9. /\ stmt' \in [Writers -> StmtType] /\ stmt'[Web] = s
      /\ \A u \in Writers \ {Web} : stmt'[u] = stmt[u]
  BY <1>0, <1>7, <1>8
<1>10. ASSUME NEW n \in Memories
       PROVE  /\ s.answer[n].row.version <= Len(log')
              /\ s.answer[n].kind # "conflict"
              /\ s.answer[n].kind = "applied" =>
                   /\ n = m /\ s.answer[n].row.version > Len(log)
                   /\ log'[s.answer[n].row.version].memory = n
  <2>1. CASE n = m
    BY <1>0, <1>2, <1>3, <1>4, <1>6, <1>8, <2>1
  <2>2. CASE n # m
    BY <1>0, <1>4, <1>6, <1>8, <2>2 DEF NoRow
  <2> QED BY <2>1, <2>2
<1>11. Wrote(Web, NoRows)
  BY <1>0, <1>4, <1>8, <1>9, <1>10 DEF Wrote
<1> QED BY <1>1, <1>2, <1>9, <1>10, <1>11

-------------------------------------------------------------------------------
(* Types. *)

(* What an answer leaves of a copy is a copy. *)
LEMMA AfterTyped ==
  ASSUME NEW answer \in Answers, NEW sent \in CopyType, NEW latest \in CopyType
  PROVE  After(answer, sent, latest).copy \in CopyType
<1>1. /\ answer.row \in RowType /\ answer.kind \in {"none", "applied", "conflict", "rejected"}
      /\ NoCopy \in CopyType
  BY SyncAssumption DEF Answers, NoCopy, CopyType
<1>2. answer.row.version \in Nat /\ answer.row.text \in 0 .. MaxEdits
  BY <1>1 DEF RowType
<1>3. CopyOf(answer.row) \in CopyType
  BY <1>2 DEF CopyOf, CopyType
<1>4. [latest EXCEPT !.version = answer.row.version] \in CopyType
  BY <1>2 DEF CopyType
<1>5. CASE answer.kind = "applied"
  BY <1>1, <1>4, <1>5 DEF After, AfterApplied
<1>6. CASE answer.kind = "conflict"
  BY <1>1, <1>3, <1>4, <1>6 DEF After, AfterConflict
<1>7. CASE answer.kind = "rejected"
  BY <1>1, <1>7 DEF After, AfterRejected
<1>8. CASE answer.kind = "none"
  BY <1>8 DEF After
<1> QED BY <1>1, <1>5, <1>6, <1>7, <1>8

(* So is what a delivered row makes of it. *)
LEMMA MergedTyped ==
  ASSUME NEW copy \in CopyType, NEW row \in RowType, NEW isDirty \in BOOLEAN
  PROVE  Merged(copy, row, isDirty) \in CopyType
<1>1. row.version \in Nat /\ row.text \in 0 .. MaxEdits /\ NoCopy \in CopyType
  BY SyncAssumption DEF RowType, NoCopy, CopyType
<1>2. CopyOf(row) \in CopyType /\ [copy EXCEPT !.version = row.version] \in CopyType
  BY <1>1 DEF CopyOf, CopyType
<1> QED BY <1>1, <1>2 DEF Merged

(* The parts of the type invariant. *)
LEMMA Typed ==
  TypeOK <=>
    /\ rows \in [Memories -> RowType] /\ log \in Seq(LogType) /\ stmt \in [Writers -> StmtType]
    /\ entry \in [Devices -> [Memories -> CopyType]] /\ dirty \in [Devices -> SUBSET Memories]
    /\ cursor \in [Devices -> Nat] /\ sync \in [Devices -> SyncType]
    /\ born \in SUBSET Memories /\ edits \in 0 .. MaxEdits /\ troubles \in 0 .. MaxTroubles
BY DEF TypeOK, LogType

(* The values a round and a statement start from and end in. *)
LEMMA Blanks ==
  /\ NoRow \in RowType /\ NoRows \in [Memories -> RowType] /\ NoCopy \in CopyType
  /\ NoCopies \in [Memories -> CopyType] /\ Quiet \in StmtType /\ Idle \in SyncType
  /\ NoRow.version = 0 /\ ~NoCopy.held
  /\ Quiet.stage = "none" /\ Quiet.items = NoCopies /\ Quiet.seen = NoRows
  /\ \A m \in Memories : Quiet.answer[m] = [kind |-> "none", row |-> NoRow]
  /\ Idle.pc = "idle" /\ ~Idle.read /\ Idle.sent = NoCopies /\ Idle.dead = {} /\ Idle.page = NoRows
<1>1. NoRow \in RowType /\ NoCopy \in CopyType /\ NoRow.version = 0 /\ ~NoCopy.held
  BY SyncAssumption DEF NoRow, NoCopy, RowType, CopyType
<1>2. NoRows \in [Memories -> RowType] /\ NoCopies \in [Memories -> CopyType]
  BY <1>1 DEF NoRows, NoCopies
<1>3. /\ Quiet.answer \in [Memories -> Answers]
      /\ \A m \in Memories : Quiet.answer[m] = [kind |-> "none", row |-> NoRow]
  BY <1>1 DEF Quiet, Answers
<1>4. Quiet \in StmtType
  BY <1>2, <1>3 DEF Quiet, StmtType
<1>5. Idle \in SyncType
  BY <1>2 DEF Idle, SyncType
<1> QED BY <1>1, <1>2, <1>3, <1>4, <1>5 DEF Quiet, Idle

(* A round that is given up leaves no page. *)
LEMMA GivesUp ==
  ASSUME sync \in [Devices -> SyncType], NEW d \in Devices, GiveUp(d)
  PROVE  sync' \in [Devices -> SyncType] /\ sync'[d] = Idle
         /\ \A e \in Devices \ {d} : sync'[e] = sync[e]
BY Blanks DEF GiveUp

-------------------------------------------------------------------------------
(* What a step leaves of the invariant of a phone it does not concern. *)

(* The log only grows, in lines and in the phones that overtook them. *)
LogGrows ==
  \A v \in DOMAIN log :
    /\ v \in DOMAIN log'
    /\ log'[v].memory = log[v].memory /\ log'[v].text = log[v].text
    /\ log'[v].deleted = log[v].deleted /\ log[v].overtaken \subseteq log'[v].overtaken

(* The versions of the rows are lines of the log, or none. *)
LEMMA RowsNumbered ==
  ASSUME TypeOK, Numbered
  PROVE  /\ Len(log) \in Nat /\ DOMAIN log = 1 .. Len(log)
         /\ \A m \in Memories : rows[m].version \in Nat
         /\ \A m \in Memories : rows[m].version # 0 => rows[m].version \in DOMAIN log
         /\ \A d \in Devices : cursor[d] \in Nat
<1>1. log \in Seq(LogType) /\ \A m \in Memories : rows[m].version \in Nat
  BY Typed DEF RowType
<1>2. Len(log) \in Nat /\ DOMAIN log = 1 .. Len(log)
  BY <1>1
<1>3. \A m \in Memories : rows[m].version <= Len(log)
  BY DEF Numbered
<1>4. \A d \in Devices : cursor[d] \in Nat
  BY Typed
<1> QED BY <1>1, <1>2, <1>3, <1>4

(* A fresh row stays fresh until the phone asks further. *)
LEMMA FreshKept ==
  ASSUME TypeOK, Numbered, LogGrows, NEW e \in Devices, NEW m \in Memories,
         rows'[m] = rows[m], cursor'[e] = cursor[e], Fresh(e, m)
  PROVE  Fresh(e, m)'
BY RowsNumbered DEF Fresh, LogGrows

(* A step that leaves the rows and a phone alone leaves the invariant of that *)
(* phone.                                                                     *)
LEMMA PhoneKept ==
  ASSUME TypeOK, Numbered, LogGrows, NEW e \in Devices, rows' = rows, entry'[e] = entry[e],
         dirty'[e] = dirty[e], cursor'[e] = cursor[e], sync'[e] = sync[e],
         stmt'[<<e, "now">>] = stmt[<<e, "now">>], PhoneInv(e)
  PROVE  PhoneInv(e)'
<1>1. \A m \in Memories : Fresh(e, m) => Fresh(e, m)'
  BY FreshKept
<1>2. Pushing(e)'
  BY DEF PhoneInv, Pushing
<1>3. Answering(e)'
  <2>1. Answering(e)
    BY DEF PhoneInv
  <2>2. \A m \in Memories : WasStored(m, stmt[<<e, "now">>].items[m])
                            => WasStored(m, stmt[<<e, "now">>].items[m])'
    BY DEF WasStored, LogGrows
  <2> QED BY <1>1, <2>1, <2>2 DEF Answering
<1>4. Reading(e)'
  <2>1. Reach(e)' = Reach(e)
    BY DEF Reach
  <2> QED BY <2>1, RowsNumbered DEF PhoneInv, Reading, LogGrows
<1>5. \A m \in Memories : View(e, m)'
  BY <1>1 DEF PhoneInv, View
<1> QED BY <1>2, <1>3, <1>4, <1>5 DEF PhoneInv

(* A log that does not change grows. *)
LEMMA SameLogGrows == log' = log => LogGrows
BY DEF LogGrows

-------------------------------------------------------------------------------
(* Changes of the user. *)

(* A change of the user keeps the version its copy was made from, and its id *)
(* becomes dirty.                                                            *)
LEMMA ChangeShape ==
  ASSUME TypeOK, Unborn, NEW d \in Devices, NEW m \in Memories,
         AddMemory(d, m) \/ UpdateMemory(d, m) \/ DeleteMemory(d, m)
  PROVE  /\ TypeOK' /\ UNCHANGED <<server, cursor, sync>>
         /\ \/ m \in born /\ entry[d][m].held /\ entry'[d][m].version = entry[d][m].version
            \/ m \notin born
         /\ entry'[d][m].held /\ born' = born \cup {m}
         /\ \A n \in Memories \ {m} : entry'[d][n] = entry[d][n]
         /\ dirty'[d] = dirty[d] \cup {m}
         /\ \A e \in Devices \ {d} : entry'[e] = entry[e] /\ dirty'[e] = dirty[e]
<1>0. /\ entry \in [Devices -> [Memories -> CopyType]] /\ entry[d][m] \in CopyType
      /\ dirty \in [Devices -> SUBSET Memories] /\ born \in SUBSET Memories
      /\ edits \in 0 .. MaxEdits /\ MaxEdits \in Nat
  BY Typed, SyncAssumption
<1>1. PICK copy : /\ Change(d, m, copy)
                  /\ edits < MaxEdits
                  /\ copy \in CopyType /\ copy.held
                  /\ \/ m \in born /\ entry[d][m].held /\ copy.version = entry[d][m].version
                     \/ m \notin born
                  /\ born' = born \cup {m}
  <2>1. CASE AddMemory(d, m)
    <3> DEFINE copy == [held |-> TRUE, text |-> edits + 1, version |-> 0, deleted |-> FALSE]
    <3>1. Change(d, m, copy) /\ born' = born \cup {m} /\ m \in Unused(d) /\ edits < MaxEdits
      BY <2>1 DEF AddMemory, Change
    <3>2. copy \in CopyType /\ copy.held
      BY <1>0, <3>1 DEF CopyType
    <3> QED BY <3>1, <3>2 DEF Unused
  <2>2. CASE UpdateMemory(d, m)
    <3> DEFINE copy == [entry[d][m] EXCEPT !.text = edits + 1]
    <3>1. Change(d, m, copy) /\ born' = born /\ entry[d][m].held /\ edits < MaxEdits
      BY <2>2 DEF UpdateMemory, Change, Shown
    <3>2. copy \in CopyType /\ copy.held /\ copy.version = entry[d][m].version
      BY <1>0, <3>1 DEF CopyType
    <3>3. m \in born
      BY <3>1 DEF Unborn
    <3> QED BY <3>1, <3>2, <3>3
  <2>3. CASE DeleteMemory(d, m)
    <3> DEFINE copy == [entry[d][m] EXCEPT !.deleted = TRUE]
    <3>1. Change(d, m, copy) /\ born' = born /\ entry[d][m].held /\ edits < MaxEdits
      BY <2>3 DEF DeleteMemory, Change, Shown
    <3>2. copy \in CopyType /\ copy.held /\ copy.version = entry[d][m].version
      BY <1>0, <3>1 DEF CopyType
    <3>3. m \in born
      BY <3>1 DEF Unborn
    <3> QED BY <3>1, <3>2, <3>3
  <2> QED BY <2>1, <2>2, <2>3
<1>2. /\ entry' = [entry EXCEPT ![d][m] = copy] /\ dirty' = [dirty EXCEPT ![d] = @ \cup {m}]
      /\ edits' = edits + 1 /\ UNCHANGED <<server, cursor, sync, troubles>>
  BY <1>1 DEF Change
<1>3. /\ entry' \in [Devices -> [Memories -> CopyType]] /\ entry'[d][m] = copy
      /\ \A n \in Memories \ {m} : entry'[d][n] = entry[d][n]
      /\ \A e \in Devices \ {d} : entry'[e] = entry[e]
  BY <1>0, <1>1, <1>2
<1>4. /\ dirty' \in [Devices -> SUBSET Memories] /\ dirty'[d] = dirty[d] \cup {m}
      /\ \A e \in Devices \ {d} : dirty'[e] = dirty[e]
  BY <1>0, <1>2
<1>5. edits' \in 0 .. MaxEdits
  BY <1>0, <1>1, <1>2
<1>6. TypeOK'
  BY <1>0, <1>1, <1>2, <1>3, <1>4, <1>5 DEF TypeOK, server
<1> QED BY <1>1, <1>2, <1>3, <1>4, <1>6

(* The copy of a change is dirty, and so it need not show the row's text. *)
LEMMA ChangeKeeps ==
  ASSUME IInv, NEW d \in Devices, NEW m \in Memories,
         AddMemory(d, m) \/ UpdateMemory(d, m) \/ DeleteMemory(d, m)
  PROVE  IInv'
<1>0. TypeOK /\ Numbered /\ Unborn /\ Pending /\ Resting /\ \A e \in Devices : PhoneInv(e)
  BY DEF IInv
<1>1. /\ TypeOK' /\ UNCHANGED <<server, cursor, sync>>
      /\ \/ m \in born /\ entry[d][m].held /\ entry'[d][m].version = entry[d][m].version
         \/ m \notin born
      /\ entry'[d][m].held /\ born' = born \cup {m}
      /\ \A n \in Memories \ {m} : entry'[d][n] = entry[d][n]
      /\ dirty'[d] = dirty[d] \cup {m}
      /\ \A e \in Devices \ {d} : entry'[e] = entry[e] /\ dirty'[e] = dirty[e]
  BY <1>0, ChangeShape
<1>2. rows' = rows /\ log' = log /\ stmt' = stmt /\ cursor' = cursor /\ sync' = sync
  BY <1>1 DEF server
<1>3. \A e \in Devices : Reach(e)' = Reach(e)
  BY <1>2 DEF Reach
<1>4. Numbered' /\ Resting'
  BY <1>0, <1>2, <1>3 DEF Numbered, Resting
<1>5. Unborn'
  BY <1>0, <1>1, <1>2 DEF Unborn
<1>6. Pending'
  BY <1>0, <1>2, <1>3 DEF Pending, Writes
<1>7. LogGrows
  BY <1>2, SameLogGrows
<1>8. \A e \in Devices \ {d} : PhoneInv(e)'
  BY <1>0, <1>1, <1>2, <1>7, PhoneKept
<1>9. PhoneInv(d)'
  <2>1. Pushing(d) /\ Answering(d) /\ Reading(d) /\ \A n \in Memories : View(d, n)
    BY <1>0 DEF PhoneInv
  <2>2. Pushing(d)'
    <3>1. ASSUME sync[d].pc = "push", NEW n \in Memories, sync[d].sent[n].held
          PROVE  n \in dirty'[d] /\ entry'[d][n].held /\ entry'[d][n].version = sync[d].sent[n].version
      <4>1. n \in dirty[d] /\ entry[d][n].held /\ entry[d][n].version = sync[d].sent[n].version
            /\ n \in born
        BY <1>0, <2>1, <3>1 DEF Pushing, Unborn
      <4> QED BY <1>1, <4>1
    <3>2. ASSUME sync[d].pc = "push", NEW n \in sync[d].dead PROVE ~entry'[d][n].held
      <4>1. ~entry[d][n].held /\ n \in born /\ n \in Memories
        BY <1>0, <2>1, <3>2, Typed DEF Pushing, Unborn
      <4> QED BY <1>1, <4>1
    <3> QED BY <1>2, <2>1, <3>1, <3>2 DEF Pushing
  <2>3. \A n \in Memories : Fresh(d, n)' <=> Fresh(d, n)
    BY <1>2 DEF Fresh
  <2>4. Answering(d)'
    BY <1>2, <2>1, <2>3 DEF Answering, WasStored
  <2>5. Reading(d)'
    BY <1>2, <1>3, <2>1 DEF Reading
  <2>6. ASSUME NEW n \in Memories PROVE View(d, n)'
    <3>1. View(d, n)
      BY <2>1
    <3>2. CASE n # m
      BY <1>1, <1>2, <2>3, <3>1, <3>2 DEF View
    <3>3. CASE n = m /\ m \in born
      BY <1>1, <1>2, <2>3, <3>1, <3>3 DEF View
    <3>4. CASE n = m /\ m \notin born
      <4>1. rows[n].version = 0
        BY <1>0, <3>4 DEF Unborn
      <4> QED BY <1>2, <4>1 DEF View
    <3> QED BY <3>2, <3>3, <3>4
  <2> QED BY <2>2, <2>4, <2>5, <2>6 DEF PhoneInv
<1> QED BY <1>1, <1>4, <1>5, <1>6, <1>8, <1>9 DEF IInv

-------------------------------------------------------------------------------
(* Statements at the server. *)

(* How far a phone asks is between its cursor and the last number. *)
LEMMA ReachTyped ==
  ASSUME TypeOK, Numbered, NEW d \in Devices
  PROVE  Reach(d) \in Nat /\ cursor[d] \in Nat /\ cursor[d] <= Reach(d) /\ Reach(d) <= Len(log)
BY Typed DEF Numbered

(* A statement that writes makes the log grow. *)
LEMMA WroteGrows ==
  ASSUME TypeOK, NEW w \in Writers, NEW seen, Wrote(w, seen)
  PROVE  LogGrows /\ Len(log) \in Nat /\ Len(log') \in Nat /\ DOMAIN log = 1 .. Len(log)
         /\ DOMAIN log' = 1 .. Len(log')
<1>1. log \in Seq(LogType) /\ log' \in Seq(LogType) /\ Len(log) <= Len(log')
  BY Typed DEF Wrote
<1>2. /\ Len(log) \in Nat /\ Len(log') \in Nat /\ DOMAIN log = 1 .. Len(log)
      /\ DOMAIN log' = 1 .. Len(log')
  BY <1>1
<1>3. LogGrows
  BY <1>1, <1>2 DEF Wrote, LogGrows
<1> QED BY <1>2, <1>3

(* The versions of answers are naturals. *)
LEMMA AnswersTyped ==
  ASSUME NEW s \in StmtType
  PROVE  \A m \in Memories : /\ s.answer[m].row \in RowType /\ s.seen[m] \in RowType
                             /\ s.answer[m].row.version \in Nat /\ s.seen[m].version \in Nat
BY DEF StmtType, Answers, RowType

(* Numbers that are not committed stay their rows' own while no statement takes  *)
(* another, no phone asks further, and a row changes only to what was committed. *)
LEMMA PendingKept ==
  ASSUME TypeOK, Pending, LogGrows,
         \A n \in Memories :
           \/ rows'[n] = rows[n]
           \/ \E x \in Writers : n \in Writes(x) /\ Writes(x)' = {} /\ rows'[n] = stmt[x].answer[n].row,
         \A e \in Devices : Reach(e) \in Nat /\ Reach(e)' \in Nat /\ Reach(e)' <= Reach(e),
         \A u \in Writers : \A m \in Writes(u)' :
           m \in Writes(u) /\ stmt'[u].answer[m] = stmt[u].answer[m]
  PROVE  Pending'
<1> SUFFICES ASSUME NEW u \in Writers, NEW m \in Writes(u)'
             PROVE  /\ stmt'[u].answer[m].row.version \in DOMAIN log'
                    /\ log'[stmt'[u].answer[m].row.version].memory = m
                    /\ \A n \in Memories : rows'[n].version # stmt'[u].answer[m].row.version
                    /\ \A x \in Writers \ {u} : \A n \in Writes(x)' :
                         stmt'[x].answer[n].row.version # stmt'[u].answer[m].row.version
                    /\ \A d \in Devices : \/ stmt'[u].answer[m].row.version > Reach(d)'
                                          \/ d \in log'[stmt'[u].answer[m].row.version].overtaken
  BY DEF Pending
<1>1. m \in Writes(u) /\ stmt'[u].answer[m] = stmt[u].answer[m] /\ m \in Memories
  BY DEF Writes
<1>2. /\ stmt[u].answer[m].row.version \in DOMAIN log
      /\ log[stmt[u].answer[m].row.version].memory = m
      /\ \A n \in Memories : rows[n].version # stmt[u].answer[m].row.version
      /\ \A x \in Writers \ {u} : \A n \in Writes(x) :
           stmt[x].answer[n].row.version # stmt[u].answer[m].row.version
      /\ \A d \in Devices : \/ stmt[u].answer[m].row.version > Reach(d)
                            \/ d \in log[stmt[u].answer[m].row.version].overtaken
  BY <1>1 DEF Pending
<1>3. \A x \in Writers \ {u} : \A n \in Writes(x)' :
        stmt'[x].answer[n].row.version # stmt'[u].answer[m].row.version
  BY <1>1, <1>2
<1>4. stmt[u].answer[m].row.version \in Nat
  BY <1>1, Typed, AnswersTyped
<1>5. \A d \in Devices : \/ stmt'[u].answer[m].row.version > Reach(d)'
                         \/ d \in log'[stmt'[u].answer[m].row.version].overtaken
  BY <1>1, <1>2, <1>4 DEF LogGrows
<1>6. ASSUME NEW n \in Memories PROVE rows'[n].version # stmt'[u].answer[m].row.version
  <2>1. CASE rows'[n] = rows[n]
    BY <1>1, <1>2, <2>1
  <2>2. CASE rows'[n] # rows[n]
    <3>1. PICK x \in Writers : n \in Writes(x) /\ Writes(x)' = {} /\ rows'[n] = stmt[x].answer[n].row
      BY <2>2
    <3>2. x # u
      BY <3>1
    <3> QED BY <1>1, <1>2, <3>1, <3>2
  <2> QED BY <2>1, <2>2
<1> QED BY <1>1, <1>2, <1>3, <1>5, <1>6 DEF LogGrows

(* A statement writes under new numbers, and the phone that waits for it is told *)
(* the truth of the rows it did not write, as far as its snapshot goes.           *)
LEMMA WroteKeeps ==
  ASSUME IInv, NEW w \in Writers, NEW seen, Wrote(w, seen),
         rows' = rows, UNCHANGED phone, born' = born,
         edits' \in 0 .. MaxEdits, troubles' \in 0 .. MaxTroubles,
         stmt[w].stage \in {"sent", "waiting"} \/ w = Web,
         \A m \in Memories : stmt'[w].answer[m].kind = "applied" => m \in born,
         w # Web => \A m \in Memories :
                      /\ stmt'[w].answer[m].kind # "none" => stmt[w].items[m].held
                      /\ stmt'[w].answer[m].kind = "applied" => WasStored(m, stmt[w].items[m])',
         \A d \in Devices : w = <<d, "now">> =>
           \A m \in Memories : seen[m] = rows[m] \/ Fresh(d, m)
  PROVE  IInv'
<1>0. TypeOK /\ Numbered /\ Unborn /\ Pending /\ Resting /\ \A e \in Devices : PhoneInv(e)
  BY DEF IInv
<1>1. /\ LogGrows /\ Len(log) \in Nat /\ Len(log') \in Nat /\ Len(log) <= Len(log')
      /\ DOMAIN log = 1 .. Len(log) /\ DOMAIN log' = 1 .. Len(log')
  BY <1>0, WroteGrows DEF Wrote
<1>2. /\ entry' = entry /\ dirty' = dirty /\ cursor' = cursor /\ sync' = sync
      /\ \A u \in Writers \ {w} : stmt'[u] = stmt[u]
      /\ stmt'[w].stage = "written" /\ stmt'[w].seen = NoRows /\ stmt'[w].items = stmt[w].items
      /\ stmt \in [Writers -> StmtType] /\ stmt' \in [Writers -> StmtType]
  BY <1>0, Typed DEF phone, Wrote
<1>3. TypeOK'
  BY <1>0, <1>2, Typed DEF Wrote, TypeOK, LogType
<1>4. \A e \in Devices : Reach(e)' = Reach(e)
  BY <1>2 DEF Reach
<1>5. \A m \in Memories :
        /\ stmt'[w].answer[m].row.version <= Len(log')
        /\ stmt'[w].answer[m].kind = "conflict" => stmt'[w].answer[m].row = seen[m]
        /\ stmt'[w].answer[m].kind = "applied" =>
             /\ stmt'[w].answer[m].row.version \in Nat
             /\ stmt'[w].answer[m].row.version > Len(log)
             /\ log'[stmt'[w].answer[m].row.version].memory = m
  BY <1>2, AnswersTyped DEF Wrote
<1>6. Numbered'
  <2>1. \A m \in Memories : rows[m].version \in Nat /\ rows[m].version <= Len(log)
    BY <1>0, RowsNumbered DEF Numbered
  <2>2. \A u \in Writers, m \in Memories :
          stmt'[u].seen[m].version <= Len(log') /\ stmt'[u].answer[m].row.version <= Len(log')
    <3> SUFFICES ASSUME NEW u \in Writers, NEW m \in Memories
                 PROVE  stmt'[u].seen[m].version <= Len(log') /\ stmt'[u].answer[m].row.version <= Len(log')
      OBVIOUS
    <3>1. CASE u = w
      <4>1. NoRows[m].version = 0
        BY Blanks DEF NoRows
      <4> QED BY <1>1, <1>2, <1>5, <3>1, <4>1
    <3>2. CASE u # w
      <4>1. /\ stmt'[u] = stmt[u]
            /\ stmt[u].seen[m].version \in Nat /\ stmt[u].answer[m].row.version \in Nat
            /\ stmt[u].seen[m].version <= Len(log) /\ stmt[u].answer[m].row.version <= Len(log)
        BY <1>0, <1>2, <3>2, AnswersTyped DEF Numbered
      <4> QED BY <1>1, <4>1
    <3> QED BY <3>1, <3>2
  <2>3. \A d \in Devices, m \in Memories : sync[d].page[m].version <= Len(log')
    <3>1. \A d \in Devices, m \in Memories :
            sync[d].page[m].version \in Nat /\ sync[d].page[m].version <= Len(log)
      BY <1>0, Typed DEF Numbered, SyncType, RowType
    <3> QED BY <1>1, <3>1
  <2>4. \A d \in Devices : Reach(d) \in Nat /\ cursor[d] <= Reach(d) /\ Reach(d) <= Len(log')
    BY <1>0, <1>1, ReachTyped
  <2>5. \A m \in Memories : rows[m].version <= Len(log')
    BY <1>1, <2>1
  <2> QED BY <1>2, <1>4, <2>2, <2>3, <2>4, <2>5 DEF Numbered
<1>7. Unborn'
  BY <1>0, <1>2 DEF Unborn
<1>8. Resting'
  BY <1>0, <1>2 DEF Resting
<1>9. Pending'
  <2>1. \A u \in Writers \ {w} : Writes(u)' = Writes(u)
    BY <1>2 DEF Writes
  <2>2. \A m \in Writes(w)' : m \in Memories /\ stmt'[w].answer[m].kind = "applied"
    BY <1>2 DEF Writes
  <2>3. \A n \in Memories : rows[n].version \in Nat /\ rows[n].version <= Len(log)
    BY <1>0, RowsNumbered DEF Numbered
  <2>4. \A u \in Writers \ {w} : \A n \in Writes(u) :
          /\ n \in Memories /\ stmt[u].answer[n].row.version \in Nat
          /\ stmt[u].answer[n].row.version <= Len(log)
    BY <1>0, <1>2, AnswersTyped DEF Writes, Numbered
  <2>5. \A e \in Devices : Reach(e) \in Nat /\ Reach(e) <= Len(log)
    BY <1>0, ReachTyped
  <2>6. ASSUME NEW m \in Writes(w)'
        PROVE  /\ stmt'[w].answer[m].row.version \in DOMAIN log'
               /\ log'[stmt'[w].answer[m].row.version].memory = m
               /\ \A n \in Memories : rows'[n].version # stmt'[w].answer[m].row.version
               /\ \A u \in Writers \ {w} : \A n \in Writes(u)' :
                    stmt'[u].answer[n].row.version # stmt'[w].answer[m].row.version
               /\ \A d \in Devices : stmt'[w].answer[m].row.version > Reach(d)'
    <3>1. /\ stmt'[w].answer[m].row.version \in Nat
          /\ stmt'[w].answer[m].row.version > Len(log)
          /\ stmt'[w].answer[m].row.version <= Len(log')
          /\ log'[stmt'[w].answer[m].row.version].memory = m
      BY <1>5, <2>2
    <3>2. stmt'[w].answer[m].row.version \in DOMAIN log'
      BY <1>1, <3>1
    <3>3. \A n \in Memories : rows'[n].version # stmt'[w].answer[m].row.version
      BY <1>1, <2>3, <3>1
    <3>4. \A u \in Writers \ {w} : \A n \in Writes(u)' :
            stmt'[u].answer[n].row.version # stmt'[w].answer[m].row.version
      BY <1>1, <1>2, <2>1, <2>4, <3>1
    <3>5. \A d \in Devices : stmt'[w].answer[m].row.version > Reach(d)'
      BY <1>1, <1>4, <2>5, <3>1
    <3> QED BY <3>1, <3>2, <3>3, <3>4, <3>5, Zenon
  <2>7. ASSUME NEW u \in Writers \ {w}, NEW m \in Writes(u)'
        PROVE  /\ stmt'[u].answer[m].row.version \in DOMAIN log'
               /\ log'[stmt'[u].answer[m].row.version].memory = m
               /\ \A n \in Memories : rows'[n].version # stmt'[u].answer[m].row.version
               /\ \A x \in Writers \ {u} : \A n \in Writes(x)' :
                    stmt'[x].answer[n].row.version # stmt'[u].answer[m].row.version
               /\ \A d \in Devices : \/ stmt'[u].answer[m].row.version > Reach(d)'
                                     \/ d \in log'[stmt'[u].answer[m].row.version].overtaken
    <3>1. m \in Writes(u) /\ stmt'[u] = stmt[u]
      BY <1>2, <2>1, <2>7
    <3>2. /\ stmt[u].answer[m].row.version \in DOMAIN log
          /\ log[stmt[u].answer[m].row.version].memory = m
          /\ \A n \in Memories : rows[n].version # stmt[u].answer[m].row.version
          /\ \A x \in Writers \ {u} : \A n \in Writes(x) :
               stmt[x].answer[n].row.version # stmt[u].answer[m].row.version
          /\ \A d \in Devices : \/ stmt[u].answer[m].row.version > Reach(d)
                                \/ d \in log[stmt[u].answer[m].row.version].overtaken
      BY <1>0, <3>1 DEF Pending
    <3>3. \A x \in Writers \ {u} : \A n \in Writes(x)' :
            stmt'[x].answer[n].row.version # stmt'[u].answer[m].row.version
      <4>1. \A n \in Writes(w)' : stmt'[w].answer[n].row.version # stmt[u].answer[m].row.version
        BY <2>6, <3>1, <2>7
      <4>2. \A x \in Writers \ {u, w} : \A n \in Writes(x)' :
              stmt'[x].answer[n].row.version # stmt[u].answer[m].row.version
        BY <1>2, <2>1, <3>2
      <4> QED BY <3>1, <4>1, <4>2
    <3>4. stmt'[u].answer[m].row.version \in DOMAIN log' /\ log'[stmt'[u].answer[m].row.version].memory = m
      BY <1>1, <3>1, <3>2 DEF LogGrows
    <3>5. \A d \in Devices : \/ stmt'[u].answer[m].row.version > Reach(d)'
                             \/ d \in log'[stmt'[u].answer[m].row.version].overtaken
      BY <1>1, <1>4, <3>1, <3>2 DEF LogGrows
    <3> QED BY <3>1, <3>2, <3>3, <3>4, <3>5
  <2> QED BY <2>6, <2>7 DEF Pending
<1>10. ASSUME NEW e \in Devices PROVE PhoneInv(e)'
  <2>1. CASE w # <<e, "now">>
    <3>1. stmt'[<<e, "now">>] = stmt[<<e, "now">>]
      BY <1>2, <2>1, WriterKinds
    <3> QED BY <1>0, <1>1, <1>2, <3>1, PhoneKept
  <2>2. CASE w = <<e, "now">>
    <3>1. Pushing(e) /\ Answering(e) /\ Reading(e) /\ \A m \in Memories : View(e, m)
      BY <1>0 DEF PhoneInv
    <3>2. \A m \in Memories : Fresh(e, m) => Fresh(e, m)'
      BY <1>0, <1>1, <1>2, FreshKept
    <3>3. w # Web /\ stmt[w].stage # "none"
      BY <2>2, WriterKinds
    <3>4. Pushing(e)'
      BY <1>2, <2>2, <3>1, <3>3 DEF Pushing
    <3>5. Answering(e)'
      <4>1. \A m \in Memories :
              stmt'[w].answer[m].kind = "conflict" => stmt'[w].answer[m].row = rows'[m] \/ Fresh(e, m)'
        BY <1>5, <2>2, <3>2
      <4>2. \A m \in Memories :
              /\ stmt'[w].answer[m].kind # "none" => stmt'[w].items[m].held
              /\ stmt'[w].answer[m].kind = "applied" => WasStored(m, stmt[w].items[m])'
        BY <1>2, <3>3
      <4> QED BY <1>2, <2>2, <4>1, <4>2 DEF Answering
    <3>6. Reading(e)'
      BY <1>0, <1>1, <1>2, <1>4, <3>1, RowsNumbered DEF Reading, LogGrows
    <3>7. \A m \in Memories : View(e, m)'
      BY <1>2, <3>1, <3>2 DEF View
    <3> QED BY <3>4, <3>5, <3>6, <3>7 DEF PhoneInv
  <2> QED BY <2>1, <2>2
<1> QED BY <1>3, <1>6, <1>7, <1>8, <1>9, <1>10 DEF IInv

(* A statement that runs keeps the invariant. *)
LEMMA ExecuteKeeps ==
  ASSUME IInv, NEW w \in Writers, NEW seen \in [Memories -> RowType], NEW refused,
         stmt[w].stage \in {"sent", "waiting"},
         \A m \in Memories : seen[m].version <= Len(log),
         Execute(w, seen, refused),
         rows' = rows, UNCHANGED phone, born' = born, edits' = edits,
         troubles' \in 0 .. MaxTroubles,
         \A d \in Devices : w = <<d, "now">> =>
           \A m \in Memories : seen[m] = rows[m] \/ Fresh(d, m)
  PROVE  IInv'
<1>1. TypeOK /\ Unborn /\ edits' \in 0 .. MaxEdits
  BY Typed DEF IInv
<1>2. /\ Wrote(w, seen)
      /\ \A m \in Memories :
           /\ stmt'[w].answer[m].kind # "none" => stmt[w].items[m].held
           /\ stmt'[w].answer[m].kind = "applied" => WasStored(m, stmt[w].items[m])'
  BY <1>1, ExecuteShape
<1>3. \A m \in Memories : stmt'[w].answer[m].kind = "applied" => m \in born
  BY <1>1, <1>2 DEF Unborn
<1> QED BY <1>1, <1>2, <1>3, WroteKeeps

(* A push that arrives is written, or waits with the snapshot it was started with. *)
LEMMA HandlePushKeeps ==
  ASSUME IInv, NEW w \in Writers, HandlePush(w)
  PROVE  IInv'
<1>0. TypeOK /\ Numbered /\ Unborn /\ Pending /\ Resting /\ \A e \in Devices : PhoneInv(e)
  BY DEF IInv
<1>1. /\ stmt[w].stage = "sent" /\ rows' = rows /\ UNCHANGED phone /\ UNCHANGED budget
      /\ \/ Execute(w, rows, {})
         \/ /\ stmt' = [stmt EXCEPT ![w].stage = "waiting", ![w].seen = rows]
            /\ log' = log
  BY DEF HandlePush
<1>2. /\ rows \in [Memories -> RowType] /\ \A m \in Memories : rows[m].version <= Len(log)
      /\ born' = born /\ edits' = edits /\ troubles' = troubles /\ troubles \in 0 .. MaxTroubles
      /\ stmt \in [Writers -> StmtType] /\ log \in Seq(LogType)
  BY <1>0, <1>1, Typed DEF Numbered, budget
<1>3. CASE Execute(w, rows, {})
  BY <1>1, <1>2, <1>3, ExecuteKeeps
<1>4. CASE stmt' = [stmt EXCEPT ![w].stage = "waiting", ![w].seen = rows] /\ log' = log
  <2> DEFINE s == [stmt[w] EXCEPT !.stage = "waiting", !.seen = rows]
  <2>1. stmt' = [stmt EXCEPT ![w] = s]
    BY <1>4
  <2>2. /\ s \in StmtType /\ s.stage = "waiting" /\ s.seen = rows
        /\ s.items = stmt[w].items /\ s.answer = stmt[w].answer
    BY <1>2 DEF StmtType
  <2> HIDE DEF s
  <2>3. /\ stmt' \in [Writers -> StmtType] /\ stmt'[w] = s
        /\ \A u \in Writers \ {w} : stmt'[u] = stmt[u]
    BY <1>2, <2>1, <2>2
  <2>4. entry' = entry /\ dirty' = dirty /\ cursor' = cursor /\ sync' = sync
    BY <1>1 DEF phone
  <2>5. TypeOK'
    BY <1>0, <1>1, <1>2, <1>4, <2>3, <2>4, Typed DEF TypeOK
  <2>6. \A e \in Devices : Reach(e)' = Reach(e)
    BY <2>4 DEF Reach
  <2>7. Numbered' /\ Unborn' /\ Resting'
    BY <1>0, <1>1, <1>2, <1>4, <2>2, <2>3, <2>4, <2>6 DEF Numbered, Unborn, Resting
  <2>8. \A u \in Writers : Writes(u)' = Writes(u) /\ (Writes(u) # {} => stmt'[u] = stmt[u])
    BY <1>1, <2>2, <2>3, ZenonT(40) DEF Writes
  <2>9. LogGrows
    BY <1>4, SameLogGrows
  <2>10. Pending'
    <3>1. \A u \in Writers : \A m \in Writes(u)' :
            m \in Writes(u) /\ stmt'[u].answer[m] = stmt[u].answer[m]
      BY <2>8
    <3>2. \A e \in Devices : Reach(e) \in Nat /\ Reach(e)' \in Nat /\ Reach(e)' <= Reach(e)
      BY <1>0, <2>6, ReachTyped
    <3> QED BY <1>0, <1>1, <2>9, <3>1, <3>2, PendingKept
  <2>11. ASSUME NEW e \in Devices PROVE PhoneInv(e)'
    <3>1. CASE w # <<e, "now">>
      <4>1. stmt'[<<e, "now">>] = stmt[<<e, "now">>]
        BY <2>3, <3>1, WriterKinds
      <4> QED BY <1>0, <1>1, <2>4, <2>9, <4>1, PhoneKept
    <3>2. CASE w = <<e, "now">>
      <4>1. Pushing(e) /\ Answering(e) /\ Reading(e) /\ \A m \in Memories : View(e, m)
        BY <1>0 DEF PhoneInv
      <4>2. \A m \in Memories : Fresh(e, m) => Fresh(e, m)'
        BY <1>1, <1>4, <2>4 DEF Fresh
      <4>3. Pushing(e)'
        BY <1>1, <2>2, <2>3, <2>4, <3>2, <4>1 DEF Pushing
      <4>4. Answering(e)'
        BY <1>1, <2>2, <2>3, <3>2 DEF Answering
      <4>5. Reading(e)'
        BY <1>1, <1>4, <2>4, <2>6, <4>1 DEF Reading
      <4>6. \A m \in Memories : View(e, m)'
        BY <1>1, <2>4, <4>1, <4>2 DEF View
      <4> QED BY <4>3, <4>4, <4>5, <4>6 DEF PhoneInv
    <3> QED BY <3>1, <3>2
  <2> QED BY <2>5, <2>7, <2>10, <2>11 DEF IInv
<1> QED BY <1>1, <1>3, <1>4

(* A push the gate refused part of, and one whose turn came. *)
LEMMA HandleRefusedKeeps ==
  ASSUME IInv, NEW w \in Writers, HandleRefused(w)
  PROVE  IInv'
<1>1. PICK refused : Execute(w, rows, refused)
  BY DEF HandleRefused
<1>2. /\ stmt[w].stage = "sent" /\ troubles < MaxTroubles /\ troubles' = troubles + 1
      /\ rows' = rows /\ UNCHANGED phone /\ born' = born /\ edits' = edits
  BY DEF HandleRefused
<1>3. /\ rows \in [Memories -> RowType] /\ \A m \in Memories : rows[m].version <= Len(log)
      /\ troubles \in 0 .. MaxTroubles
  BY Typed DEF IInv, Numbered
<1>4. troubles' \in 0 .. MaxTroubles
  BY <1>2, <1>3, SyncAssumption
<1> QED BY <1>1, <1>2, <1>3, <1>4, ExecuteKeeps

(* A push that waited runs with the snapshot it was started with: what that *)
(* shows of a row is so, or the row was written since and is fresh.         *)
LEMMA WakeKeeps ==
  ASSUME IInv, NEW w \in Writers, Wake(w)
  PROVE  IInv'
<1>1. /\ stmt[w].stage = "waiting" /\ Execute(w, stmt[w].seen, {})
      /\ rows' = rows /\ UNCHANGED phone /\ UNCHANGED budget
  BY DEF Wake
<1>2. /\ stmt[w] \in StmtType /\ \A m \in Memories : stmt[w].seen[m].version <= Len(log)
      /\ troubles \in 0 .. MaxTroubles /\ born' = born /\ edits' = edits /\ troubles' = troubles
  BY <1>1, Typed DEF IInv, Numbered, budget
<1>3. stmt[w].seen \in [Memories -> RowType]
  BY <1>2 DEF StmtType
<1>4. ASSUME NEW d \in Devices, w = <<d, "now">>, NEW m \in Memories
      PROVE  stmt[w].seen[m] = rows[m] \/ Fresh(d, m)
  BY <1>1, <1>4 DEF IInv, PhoneInv, Answering
<1> HIDE DEF IInv
<1> QED BY <1>1, <1>2, <1>3, <1>4, ExecuteKeeps

(* A write of the web is a statement that runs at once. *)
LEMMA WebWriteKeeps ==
  ASSUME IInv, NEW m \in Memories, NEW deleted \in BOOLEAN, WebWrite(m, deleted)
  PROVE  IInv'
<1>1. TypeOK /\ Resting /\ Unborn /\ troubles \in 0 .. MaxTroubles
  BY Typed DEF IInv
<1>2. /\ Wrote(Web, NoRows)
      /\ \A n \in Memories : stmt'[Web].answer[n].kind = "applied" => rows[n].version # 0
      /\ rows' = rows /\ UNCHANGED phone /\ born' = born /\ troubles' = troubles
      /\ edits' \in 0 .. MaxEdits
  BY <1>1, WebWriteShape
<1>3. \A n \in Memories : stmt'[Web].answer[n].kind = "applied" => n \in born
  BY <1>1, <1>2 DEF Unborn
<1>4. Web \in Writers /\ \A d \in Devices : Web # <<d, "now">>
  BY WriterKinds
<1> QED BY <1>1, <1>2, <1>3, <1>4, WroteKeeps

(* A commit shows rows that every phone is still to be given, or was overtaken by. *)
LEMMA CommitKeeps ==
  ASSUME IInv, NEW w \in Writers, Commit(w)
  PROVE  IInv'
<1> DEFINE row(m) == stmt[w].answer[m].row
           after == IF w[2] = "late" \/ w = Web THEN Quiet ELSE [stmt[w] EXCEPT !.stage = "done"]
<1>0. TypeOK /\ Numbered /\ Unborn /\ Pending /\ Resting /\ \A e \in Devices : PhoneInv(e)
  BY DEF IInv
<1>1. /\ stmt[w].stage = "written"
      /\ rows' = [m \in Memories |-> IF m \in Writes(w) THEN row(m) ELSE rows[m]]
      /\ stmt' = [stmt EXCEPT ![w] = after]
      /\ log' = log /\ UNCHANGED phone /\ UNCHANGED budget
  BY DEF Commit
<1>2. /\ entry' = entry /\ dirty' = dirty /\ cursor' = cursor /\ sync' = sync
      /\ born' = born /\ edits' = edits /\ troubles' = troubles /\ log' = log
  BY <1>1 DEF phone, budget
<1>3. stmt[w] \in StmtType /\ stmt \in [Writers -> StmtType] /\ Quiet \in StmtType
  BY <1>0, Typed, Blanks
<1>4. /\ after \in StmtType /\ after.stage \in {"none", "done"}
      /\ \/ after = Quiet
         \/ after.stage = "done" /\ after.items = stmt[w].items /\ after.seen = stmt[w].seen
            /\ after.answer = stmt[w].answer
  BY <1>3, Blanks DEF StmtType
<1>5. \A e \in Devices : w = <<e, "now">> =>
        /\ after.stage = "done" /\ after.items = stmt[w].items /\ after.answer = stmt[w].answer
  BY <1>3, WriterKinds DEF StmtType
<1> HIDE DEF after
<1>6. /\ stmt' \in [Writers -> StmtType] /\ stmt'[w] = after
      /\ \A u \in Writers \ {w} : stmt'[u] = stmt[u]
  BY <1>1, <1>3, <1>4
<1>7. \A m \in Writes(w) : m \in Memories /\ row(m) \in RowType /\ rows'[m] = row(m)
                           /\ row(m).version \in Nat /\ stmt[w].answer[m].kind = "applied"
  BY <1>1, <1>3, AnswersTyped DEF Writes
<1>8. \A m \in Memories \ Writes(w) : rows'[m] = rows[m]
  BY <1>1
<1>9. rows' \in [Memories -> RowType]
  BY <1>0, <1>1, <1>7, Typed
<1>10. TypeOK'
  BY <1>0, <1>2, <1>6, <1>9, Typed DEF TypeOK
<1>11. \A e \in Devices : Reach(e)' = Reach(e)
  BY <1>2 DEF Reach
<1>12. \A m \in Memories : rows'[m].version <= Len(log)
  BY <1>0, <1>7, <1>8 DEF Numbered
<1>13. LogGrows /\ Len(log) \in Nat
  BY <1>0, <1>2, SameLogGrows, RowsNumbered
<1>14. Numbered'
  <2>1. \A u \in Writers, m \in Memories :
          stmt'[u].seen[m].version <= Len(log) /\ stmt'[u].answer[m].row.version <= Len(log)
    <3>1. \A m \in Memories : Quiet.seen[m].version = 0 /\ Quiet.answer[m].row.version = 0
      BY Blanks DEF NoRows
    <3>2. \A m \in Memories : after.seen[m].version <= Len(log) /\ after.answer[m].row.version <= Len(log)
      BY <1>0, <1>4, <1>13, <3>1 DEF Numbered
    <3> QED BY <1>0, <1>6, <3>2 DEF Numbered
  <2> QED BY <1>0, <1>2, <1>11, <1>12, <2>1 DEF Numbered
<1>15. Unborn'
  <2>1. \A m \in Memories : rows'[m].version # 0 => m \in born
    BY <1>0, <1>7, <1>8 DEF Unborn
  <2>2. \A u \in Writers, m \in Memories :
          stmt'[u].items[m].held \/ stmt'[u].answer[m].kind = "applied" => m \in born
    <3>1. \A m \in Memories : ~Quiet.items[m].held /\ Quiet.answer[m].kind # "applied"
      BY Blanks DEF NoCopies
    <3>2. \A m \in Memories : after.items[m].held \/ after.answer[m].kind = "applied" => m \in born
      BY <1>0, <1>4, <3>1 DEF Unborn
    <3> QED BY <1>0, <1>6, <3>2 DEF Unborn
  <2> QED BY <1>0, <1>2, <2>1, <2>2 DEF Unborn
<1>16. Resting'
  BY <1>0, <1>4, <1>6 DEF Resting
<1>17. Writes(w)' = {} /\ \A u \in Writers \ {w} : Writes(u)' = Writes(u)
  BY <1>4, <1>6 DEF Writes
<1>18. Pending'
  <2>1. \A n \in Memories :
          \/ rows'[n] = rows[n]
          \/ \E x \in Writers : n \in Writes(x) /\ Writes(x)' = {} /\ rows'[n] = stmt[x].answer[n].row
    BY <1>7, <1>8, <1>17
  <2>2. \A u \in Writers : \A m \in Writes(u)' :
          m \in Writes(u) /\ stmt'[u].answer[m] = stmt[u].answer[m]
    BY <1>6, <1>17
  <2>3. \A e \in Devices : Reach(e) \in Nat /\ Reach(e)' \in Nat /\ Reach(e)' <= Reach(e)
    BY <1>0, <1>11, ReachTyped
  <2> QED BY <1>0, <1>13, <2>1, <2>2, <2>3, PendingKept
<1>19. ASSUME NEW e \in Devices PROVE PhoneInv(e)'
  <2>1. Pushing(e) /\ Answering(e) /\ Reading(e) /\ \A m \in Memories : View(e, m)
    BY <1>0 DEF PhoneInv
  <2>2. ASSUME NEW m \in Writes(w)
        PROVE  /\ rows'[m].version > Reach(e)' \/ (rows'[m].version # 0 /\ e \in log'[rows'[m].version].overtaken)
               /\ Fresh(e, m)'
    <3>1. /\ rows'[m] = row(m) /\ row(m).version \in Nat /\ row(m).version \in DOMAIN log
          /\ row(m).version > Reach(e) \/ e \in log[row(m).version].overtaken
      BY <1>0, <1>7 DEF Pending
    <3>2. row(m).version # 0
      BY <1>0, <3>1, RowsNumbered
    <3>3. cursor[e] <= Reach(e) /\ Reach(e) \in Nat /\ cursor[e] \in Nat
      BY <1>0, ReachTyped
    <3> HIDE DEF row
    <3>4. CASE row(m).version > Reach(e)
      BY <1>2, <1>11, <3>1, <3>3, <3>4 DEF Fresh
    <3>5. CASE e \in log[row(m).version].overtaken
      BY <1>2, <3>1, <3>2, <3>5 DEF Fresh
    <3> QED BY <3>1, <3>4, <3>5
  <2>3. \A m \in Memories \ Writes(w) : Fresh(e, m)' <=> Fresh(e, m)
    BY <1>2, <1>8 DEF Fresh
  <2>4. \A m \in Memories : Fresh(e, m) => Fresh(e, m)'
    BY <2>2, <2>3
  <2>5. CASE w = <<e, "now">>
    <3>1. Pushing(e)'
      BY <1>1, <1>2, <1>5, <1>6, <2>1, <2>5 DEF Pushing
    <3>2. Answering(e)'
      <4>1. \A m \in Memories : stmt[w].answer[m].kind = "applied" => m \in Writes(w)
        BY <1>1 DEF Writes
      <4>2. \A m \in Memories :
              /\ stmt[w].answer[m].kind # "none" => stmt[w].items[m].held
              /\ stmt[w].answer[m].kind = "conflict" => stmt[w].answer[m].row = rows[m] \/ Fresh(e, m)
              /\ stmt[w].answer[m].kind = "applied" => WasStored(m, stmt[w].items[m])
        BY <1>1, <2>1, <2>5 DEF Answering
      <4>3. \A m \in Memories : stmt[w].answer[m].kind = "conflict" =>
              stmt[w].answer[m].row = rows'[m] \/ Fresh(e, m)'
        BY <1>8, <2>2, <2>4, <4>2
      <4>4. \A m \in Memories : stmt[w].answer[m].kind = "applied" => WasStored(m, stmt[w].items[m])'
        BY <1>2, <1>5, <1>6, <2>5, <4>2 DEF WasStored
      <4> QED BY <1>5, <1>6, <2>2, <2>5, <4>1, <4>2, <4>3, <4>4 DEF Answering, WasStored
    <3> QED BY <1>0, <3>1, <3>2, <2>1, <2>2, <2>3, <1>2, <1>8, <1>11 DEF PhoneInv, Reading, View
  <2>6. CASE w # <<e, "now">>
    <3>1. stmt'[<<e, "now">>] = stmt[<<e, "now">>]
      BY <1>6, <2>6, WriterKinds
    <3>2. Pushing(e)'
      BY <1>2, <2>1, <3>1 DEF Pushing
    <3>3. Answering(e)'
      <4>1. \A m \in Memories : rows'[m] = rows[m] \/ Fresh(e, m)'
        BY <1>8, <2>2
      <4> QED BY <1>2, <2>1, <2>4, <3>1, <4>1 DEF Answering, WasStored
    <3> QED BY <1>0, <3>2, <3>3, <2>1, <2>2, <2>3, <1>2, <1>8, <1>11 DEF PhoneInv, Reading, View
  <2> QED BY <2>5, <2>6
<1> QED BY <1>10, <1>14, <1>15, <1>16, <1>18, <1>19 DEF IInv

-------------------------------------------------------------------------------
(* Rounds of a phone. *)

(* What a new round keeps, clears, sends and marks as dead. *)
LEMMA StartShape ==
  ASSUME IInv, NEW d \in Devices, StartRound(d)
  PROVE  /\ rows' = rows /\ log' = log /\ entry' = entry /\ cursor' = cursor /\ UNCHANGED budget
         /\ sync[d].pc = "idle" /\ ~sync[d].read /\ stmt[<<d, "now">>] = Quiet
         /\ sync' \in [Devices -> SyncType] /\ dirty' \in [Devices -> SUBSET Memories]
         /\ stmt' \in [Writers -> StmtType]
         /\ \A e \in Devices \ {d} : sync'[e] = sync[e] /\ dirty'[e] = dirty[e]
         /\ \A u \in Writers \ {<<d, "now">>} : stmt'[u] = stmt[u]
         /\ dirty'[d] \subseteq dirty[d]
         /\ \A m \in dirty[d] : entry[d][m].held => m \in dirty'[d]
         /\ ~sync'[d].read /\ sync'[d].page = NoRows
         /\ sync'[d].dead \subseteq dirty[d] /\ \A m \in sync'[d].dead : ~entry[d][m].held
         /\ stmt'[<<d, "now">>].items = sync'[d].sent
         /\ stmt'[<<d, "now">>].seen = NoRows
         /\ \A m \in Memories : stmt'[<<d, "now">>].answer[m] = [kind |-> "none", row |-> NoRow]
         /\ \A m \in Memories : sync'[d].sent[m].held => m \in dirty'[d] /\ sync'[d].sent[m] = entry[d][m]
         /\ \/ sync'[d].pc = "pull" /\ stmt'[<<d, "now">>] = Quiet
            \/ sync'[d].pc = "push" /\ stmt'[<<d, "now">>].stage = "sent"
<1> DEFINE live == {m \in dirty[d] : entry[d][m].held}
           sent == [m \in Memories |-> IF m \in live THEN entry[d][m] ELSE NoCopy]
           pull == [Idle EXCEPT !.pc = "pull"]
           push == [Idle EXCEPT !.pc = "push", !.sent = sent, !.dead = DeadIds(d)]
           s == [Quiet EXCEPT !.stage = "sent", !.items = sent]
<1>0. TypeOK /\ Resting /\ Pushing(d)
  BY DEF IInv, PhoneInv
<1>1. /\ sync[d].pc = "idle"
      /\ rows' = rows /\ log' = log /\ entry' = entry /\ cursor' = cursor /\ UNCHANGED budget
      /\ \/ /\ dirty' = [dirty EXCEPT ![d] = @ \ DeadIds(d)]
            /\ sync' = [sync EXCEPT ![d] = pull]
            /\ stmt' = stmt
         \/ /\ sync' = [sync EXCEPT ![d] = push]
            /\ stmt' = [stmt EXCEPT ![<<d, "now">>] = s]
            /\ dirty' = dirty
  BY DEF StartRound
<1>2. ~sync[d].read /\ stmt[<<d, "now">>] = Quiet
  BY <1>0, <1>1, WriterKinds DEF Pushing, Resting
<1>3. /\ stmt \in [Writers -> StmtType] /\ entry[d] \in [Memories -> CopyType]
      /\ dirty \in [Devices -> SUBSET Memories] /\ sync \in [Devices -> SyncType]
      /\ <<d, "now">> \in Writers
  BY <1>0, Typed, WriterKinds
<1>4. /\ sent \in [Memories -> CopyType]
      /\ \A m \in Memories : sent[m].held => m \in dirty[d] /\ sent[m] = entry[d][m]
  BY <1>3, Blanks
<1>5. DeadIds(d) \subseteq dirty[d] /\ DeadIds(d) \subseteq Memories
      /\ \A m \in DeadIds(d) : ~entry[d][m].held
  BY <1>3 DEF DeadIds
<1> HIDE DEF sent
<1>6. /\ pull \in SyncType /\ pull.pc = "pull" /\ ~pull.read /\ pull.page = NoRows /\ pull.dead = {}
      /\ pull.sent = NoCopies
  BY Blanks DEF SyncType
<1>7. /\ push \in SyncType /\ push.pc = "push" /\ ~push.read /\ push.page = NoRows
      /\ push.dead = DeadIds(d) /\ push.sent = sent
  BY <1>4, <1>5, Blanks DEF SyncType
<1>8. /\ s \in StmtType /\ s.stage = "sent" /\ s.items = sent /\ s.seen = NoRows
      /\ \A m \in Memories : s.answer[m] = [kind |-> "none", row |-> NoRow]
  BY <1>4, Blanks DEF StmtType
<1> HIDE DEF pull, push, s
<1>9. CASE /\ dirty' = [dirty EXCEPT ![d] = @ \ DeadIds(d)]
           /\ sync' = [sync EXCEPT ![d] = pull] /\ stmt' = stmt
  <2>1. dirty'[d] = dirty[d] \ DeadIds(d) /\ \A e \in Devices \ {d} : dirty'[e] = dirty[e]
    BY <1>3, <1>9
  <2>2. sync'[d] = pull /\ \A e \in Devices \ {d} : sync'[e] = sync[e]
    BY <1>3, <1>9
  <2>3. sync' \in [Devices -> SyncType] /\ dirty' \in [Devices -> SUBSET Memories]
    BY <1>3, <1>6, <1>9
  <2>4. \A m \in Memories : ~pull.sent[m].held
    BY <1>6, Blanks DEF NoCopies
  <2> QED BY <1>1, <1>2, <1>3, <1>5, <1>6, <1>9, <2>1, <2>2, <2>3, <2>4, Blanks
<1>10. CASE /\ sync' = [sync EXCEPT ![d] = push] /\ stmt' = [stmt EXCEPT ![<<d, "now">>] = s]
            /\ dirty' = dirty
  <2>1. sync'[d] = push /\ \A e \in Devices \ {d} : sync'[e] = sync[e]
    BY <1>3, <1>10
  <2>2. stmt'[<<d, "now">>] = s /\ \A u \in Writers \ {<<d, "now">>} : stmt'[u] = stmt[u]
    BY <1>3, <1>10
  <2>3. sync' \in [Devices -> SyncType] /\ stmt' \in [Writers -> StmtType]
    BY <1>3, <1>7, <1>8, <1>10
  <2> QED BY <1>1, <1>2, <1>3, <1>4, <1>5, <1>7, <1>8, <1>10, <2>1, <2>2, <2>3
<1> QED BY <1>1, <1>9, <1>10

(* A statement of a phone that is replaced by one that has written nothing. *)
LEMMA FreshStatement ==
  ASSUME IInv, NEW d \in Devices, rows' = rows, log' = log, stmt' \in [Writers -> StmtType],
         \A u \in Writers \ {<<d, "now">>} : stmt'[u] = stmt[u],
         stmt'[<<d, "now">>].stage # "written", stmt'[<<d, "now">>].seen = NoRows,
         \A m \in Memories : stmt'[<<d, "now">>].answer[m] = [kind |-> "none", row |-> NoRow],
         \A e \in Devices : Reach(e)' \in Nat /\ Reach(e)' <= Reach(e)
  PROVE  /\ Pending' /\ LogGrows
         /\ \A u \in Writers, m \in Memories :
              stmt'[u].seen[m].version <= Len(log) /\ stmt'[u].answer[m].row.version <= Len(log)
         /\ \A e \in Devices \ {d} : stmt'[<<e, "now">>] = stmt[<<e, "now">>]
<1>0. TypeOK /\ Numbered /\ Pending
  BY DEF IInv
<1>1. LogGrows /\ Len(log) \in Nat
  BY <1>0, SameLogGrows, RowsNumbered
<1>2. Writes(<<d, "now">>)' = {} /\ \A u \in Writers \ {<<d, "now">>} : Writes(u)' = Writes(u)
  BY DEF Writes
<1>3. \A u \in Writers : \A m \in Writes(u)' : m \in Writes(u) /\ stmt'[u].answer[m] = stmt[u].answer[m]
  BY <1>2
<1>4. \A e \in Devices : Reach(e) \in Nat
  BY <1>0, ReachTyped
<1>5. Pending'
  BY <1>0, <1>1, <1>3, <1>4, PendingKept
<1>6. \A m \in Memories : NoRows[m].version = 0 /\ NoRow.version = 0
  BY Blanks DEF NoRows
<1>7. \A u \in Writers, m \in Memories :
        stmt'[u].seen[m].version <= Len(log) /\ stmt'[u].answer[m].row.version <= Len(log)
  <2>1. \A m \in Memories : /\ stmt'[<<d, "now">>].seen[m].version = 0
                            /\ stmt'[<<d, "now">>].answer[m].row.version = 0
    BY <1>6
  <2>2. \A u \in Writers \ {<<d, "now">>}, m \in Memories :
          stmt'[u].seen[m].version <= Len(log) /\ stmt'[u].answer[m].row.version <= Len(log)
    BY <1>0 DEF Numbered
  <2>3. 0 <= Len(log)
    BY <1>1
  <2> QED BY <2>1, <2>2, <2>3
<1> QED BY <1>1, <1>5, <1>7, WriterKinds

(* A round starts from a phone that waits for nothing. *)
LEMMA StartRoundKeeps ==
  ASSUME IInv, NEW d \in Devices, StartRound(d)
  PROVE  IInv'
<1>0. TypeOK /\ Numbered /\ Unborn /\ Pending /\ Resting /\ \A e \in Devices : PhoneInv(e)
  BY DEF IInv
<1>1. /\ rows' = rows /\ log' = log /\ entry' = entry /\ cursor' = cursor /\ UNCHANGED budget
      /\ ~sync[d].read /\ sync[d].pc = "idle"
      /\ sync' \in [Devices -> SyncType] /\ dirty' \in [Devices -> SUBSET Memories]
      /\ stmt' \in [Writers -> StmtType]
      /\ \A e \in Devices \ {d} : sync'[e] = sync[e] /\ dirty'[e] = dirty[e]
      /\ \A u \in Writers \ {<<d, "now">>} : stmt'[u] = stmt[u]
      /\ dirty'[d] \subseteq dirty[d]
      /\ \A m \in dirty[d] : entry[d][m].held => m \in dirty'[d]
      /\ ~sync'[d].read /\ sync'[d].page = NoRows
      /\ sync'[d].dead \subseteq dirty[d] /\ \A m \in sync'[d].dead : ~entry[d][m].held
      /\ stmt'[<<d, "now">>].items = sync'[d].sent
      /\ stmt'[<<d, "now">>].seen = NoRows
      /\ \A m \in Memories : stmt'[<<d, "now">>].answer[m] = [kind |-> "none", row |-> NoRow]
      /\ \A m \in Memories : sync'[d].sent[m].held => m \in dirty'[d] /\ sync'[d].sent[m] = entry[d][m]
      /\ \/ sync'[d].pc = "pull" /\ stmt'[<<d, "now">>] = Quiet
         \/ sync'[d].pc = "push" /\ stmt'[<<d, "now">>].stage = "sent"
  BY StartShape
<1>2. born' = born /\ edits' = edits /\ troubles' = troubles
  BY <1>1 DEF budget
<1>3. TypeOK'
  BY <1>0, <1>1, <1>2, Typed DEF TypeOK
<1>4. \A e \in Devices : Reach(e)' = Reach(e)
  BY <1>1 DEF Reach
<1>5. \A e \in Devices : Reach(e) \in Nat /\ Reach(e)' \in Nat /\ Reach(e)' <= Reach(e)
  BY <1>0, <1>4, ReachTyped
<1>6. stmt'[<<d, "now">>].stage \in {"none", "sent"}
  BY <1>1, Blanks
<1>7. /\ Pending' /\ LogGrows
      /\ \A u \in Writers, m \in Memories :
           stmt'[u].seen[m].version <= Len(log) /\ stmt'[u].answer[m].row.version <= Len(log)
      /\ \A e \in Devices \ {d} : stmt'[<<e, "now">>] = stmt[<<e, "now">>]
  BY <1>1, <1>5, <1>6, FreshStatement
<1>8. Numbered'
  <2>1. \A m \in Memories : NoRows[m].version = 0 /\ 0 <= Len(log)
    BY <1>0, RowsNumbered, Blanks DEF NoRows
  <2>2. \A e \in Devices \ {d}, m \in Memories : sync'[e].page[m].version <= Len(log)
    BY <1>0, <1>1 DEF Numbered
  <2>3. \A m \in Memories : sync'[d].page[m].version <= Len(log)
    BY <1>1, <2>1
  <2>4. \A e \in Devices, m \in Memories : sync'[e].page[m].version <= Len(log)
    BY <2>2, <2>3
  <2> QED BY <1>0, <1>1, <1>4, <1>7, <2>4 DEF Numbered
<1>9. Unborn'
  <2>1. \A m \in Memories : NoRows[m].version = 0
    BY Blanks DEF NoRows
  <2>2. \A m \in Memories : sync'[d].sent[m].held => m \in born
    BY <1>0, <1>1 DEF Unborn
  <2>3. \A u \in Writers, m \in Memories :
          stmt'[u].items[m].held \/ stmt'[u].answer[m].kind = "applied" => m \in born
    <3>1. \A u \in Writers \ {<<d, "now">>}, m \in Memories :
            stmt'[u].items[m].held \/ stmt'[u].answer[m].kind = "applied" => m \in born
      BY <1>0, <1>1 DEF Unborn
    <3>2. \A m \in Memories : stmt'[<<d, "now">>].answer[m].kind # "applied"
      BY <1>1
    <3>3. \A m \in Memories : stmt'[<<d, "now">>].items[m].held => m \in born
      BY <1>1, <2>2
    <3> QED BY <3>1, <3>2, <3>3
  <2>4. sync'[d].dead \subseteq born /\ dirty'[d] \subseteq born
    BY <1>0, <1>1 DEF Unborn
  <2> QED BY <1>0, <1>1, <1>2, <2>1, <2>2, <2>3, <2>4 DEF Unborn
<1>10. Resting'
  BY <1>0, <1>1 DEF Resting
<1>11. ASSUME NEW e \in Devices \ {d} PROVE PhoneInv(e)'
  BY <1>0, <1>1, <1>7, PhoneKept
<1>12. PhoneInv(d)'
  <2>1. /\ Pushing(d)' /\ Answering(d)' /\ Reading(d)'
    BY <1>1, <1>6, Blanks DEF Pushing, Answering, Reading
  <2>2. \A m \in Memories : View(d, m)'
    BY <1>0, <1>1 DEF PhoneInv, View, Fresh
  <2> QED BY <2>1, <2>2 DEF PhoneInv
<1> QED BY <1>3, <1>7, <1>8, <1>9, <1>10, <1>11, <1>12 DEF IInv

(* A round that is given up leaves copies, dirty ids and cursor as they are. *)
LEMMA RoundEnds ==
  ASSUME TypeOK, Numbered, NEW d \in Devices, cursor' = cursor, sync'[d] = Idle,
         \A e \in Devices \ {d} : sync'[e] = sync[e]
  PROVE  \A e \in Devices : /\ Reach(e) \in Nat /\ Reach(e)' \in Nat
                            /\ Reach(e)' <= Reach(e) /\ cursor[e] <= Reach(e)'
                            /\ Reach(e)' <= Len(log)
<1>1. \A e \in Devices : /\ Reach(e) \in Nat /\ cursor[e] \in Nat /\ cursor[e] <= Reach(e)
                         /\ Reach(e) <= Len(log)
  BY ReachTyped
<1>2. Reach(d)' = cursor[d] /\ \A e \in Devices \ {d} : Reach(e)' = Reach(e)
  BY Blanks DEF Reach
<1>3. Len(log) \in Nat
  BY RowsNumbered
<1> QED BY <1>1, <1>2, <1>3

(* The phone that gave up a round knows what it knew. *)
LEMMA GivenUp ==
  ASSUME IInv, NEW d \in Devices, rows' = rows, log' = log, entry' = entry, dirty' = dirty,
         cursor' = cursor, sync'[d] = Idle, stmt'[<<d, "now">>] = Quiet
  PROVE  PhoneInv(d)'
<1>1. \A m \in Memories : View(d, m)
  BY DEF IInv, PhoneInv
<1>2. /\ Pushing(d)' /\ Answering(d)' /\ Reading(d)'
  BY Blanks DEF Pushing, Answering, Reading
<1>3. \A m \in Memories : View(d, m)'
  BY <1>1 DEF View, Fresh
<1> QED BY <1>2, <1>3 DEF PhoneInv

(* What holds of every part of the state once a round was given up. *)
LEMMA RoundGivenUp ==
  ASSUME IInv, NEW d \in Devices, GiveUp(d), rows' = rows, log' = log, entry' = entry,
         dirty' = dirty, cursor' = cursor, born' = born, edits' = edits,
         troubles' \in 0 .. MaxTroubles, stmt' \in [Writers -> StmtType]
  PROVE  /\ TypeOK' /\ sync'[d] = Idle /\ \A e \in Devices \ {d} : sync'[e] = sync[e]
         /\ LogGrows
         /\ \A e \in Devices : Reach(e) \in Nat /\ Reach(e)' \in Nat /\ Reach(e)' <= Reach(e)
         /\ \A e \in Devices : Reach(e)' \in Nat /\ cursor'[e] <= Reach(e)' /\ Reach(e)' <= Len(log')
         /\ \A m \in Memories : rows'[m].version <= Len(log')
         /\ \A e \in Devices, m \in Memories : sync'[e].page[m].version <= Len(log')
         /\ \A e \in Devices :
              /\ dirty'[e] \subseteq born' /\ sync'[e].dead \subseteq born'
              /\ \A m \in Memories : entry'[e][m].held \/ sync'[e].sent[m].held
                                       \/ sync'[e].page[m].version # 0 => m \in born'
<1>0. TypeOK /\ Numbered /\ Unborn
  BY DEF IInv
<1>1. sync' \in [Devices -> SyncType] /\ sync'[d] = Idle /\ \A e \in Devices \ {d} : sync'[e] = sync[e]
  BY <1>0, Typed, GivesUp
<1>2. TypeOK'
  BY <1>0, <1>1, Typed DEF TypeOK
<1>3. \A e \in Devices : /\ Reach(e) \in Nat /\ Reach(e)' \in Nat
                         /\ Reach(e)' <= Reach(e) /\ cursor[e] <= Reach(e)'
                         /\ Reach(e)' <= Len(log)
  BY <1>0, <1>1, RoundEnds
<1>4. /\ \A m \in Memories : Idle.page[m].version = 0 /\ ~Idle.sent[m].held
      /\ Idle.dead = {} /\ 0 <= Len(log)
  BY <1>0, RowsNumbered, Blanks DEF NoRows, NoCopies
<1>5. \A e \in Devices, m \in Memories : sync'[e].page[m].version <= Len(log)
  BY <1>0, <1>1, <1>4 DEF Numbered
<1>6. \A e \in Devices :
        /\ dirty'[e] \subseteq born /\ sync'[e].dead \subseteq born
        /\ \A m \in Memories : entry'[e][m].held \/ sync'[e].sent[m].held
                                 \/ sync'[e].page[m].version # 0 => m \in born
  BY <1>0, <1>1, <1>4 DEF Unborn
<1> QED BY <1>0, <1>1, <1>2, <1>3, <1>5, <1>6, SameLogGrows DEF Numbered

(* A round that is given up forgets its statement, or leaves it to go on late. *)
LEMMA PullLostKeeps ==
  ASSUME IInv, NEW d \in Devices, PullLost(d)
  PROVE  IInv'
<1>0. TypeOK /\ Numbered /\ Unborn /\ Pending /\ Resting /\ \A e \in Devices : PhoneInv(e)
  BY DEF IInv
<1>1. /\ GiveUp(d) /\ sync[d].pc = "pull" /\ troubles < MaxTroubles /\ troubles' = troubles + 1
      /\ born' = born /\ edits' = edits /\ rows' = rows /\ log' = log /\ stmt' = stmt
      /\ entry' = entry /\ dirty' = dirty /\ cursor' = cursor
  BY DEF PullLost, Trouble, server
<1>2. troubles' \in 0 .. MaxTroubles /\ stmt' \in [Writers -> StmtType]
  BY <1>0, <1>1, Typed, SyncAssumption
<1>3. /\ TypeOK' /\ sync'[d] = Idle /\ \A e \in Devices \ {d} : sync'[e] = sync[e]
      /\ LogGrows
      /\ \A e \in Devices : Reach(e) \in Nat /\ Reach(e)' \in Nat /\ Reach(e)' <= Reach(e)
      /\ \A e \in Devices : Reach(e)' \in Nat /\ cursor'[e] <= Reach(e)' /\ Reach(e)' <= Len(log')
      /\ \A m \in Memories : rows'[m].version <= Len(log')
      /\ \A e \in Devices, m \in Memories : sync'[e].page[m].version <= Len(log')
      /\ \A e \in Devices :
           /\ dirty'[e] \subseteq born' /\ sync'[e].dead \subseteq born'
           /\ \A m \in Memories : entry'[e][m].held \/ sync'[e].sent[m].held
                                    \/ sync'[e].page[m].version # 0 => m \in born'
  BY <1>1, <1>2, RoundGivenUp
<1>4. Numbered' /\ Unborn' /\ Resting'
  BY <1>0, <1>1, <1>3 DEF Numbered, Unborn, Resting
<1>5. Pending'
  <2>1. \A u \in Writers : \A m \in Writes(u)' : m \in Writes(u) /\ stmt'[u].answer[m] = stmt[u].answer[m]
    BY <1>1 DEF Writes
  <2> QED BY <1>0, <1>1, <1>3, <2>1, PendingKept
<1>6. stmt[<<d, "now">>] = Quiet
  BY <1>0, <1>1, WriterKinds DEF PhoneInv, Pushing, Resting
<1>7. ASSUME NEW e \in Devices PROVE PhoneInv(e)'
  <2>1. CASE e = d
    BY <1>1, <1>3, <1>6, <2>1, GivenUp
  <2>2. CASE e # d
    BY <1>0, <1>1, <1>3, <2>2, PhoneKept
  <2> QED BY <2>1, <2>2
<1> QED BY <1>3, <1>4, <1>5, <1>7 DEF IInv

(* A push whose answer is lost leaves copies and dirty ids as they were sent. *)
LEMMA PushLostKeeps ==
  ASSUME IInv, NEW d \in Devices, PushLost(d)
  PROVE  IInv'
<1>0. TypeOK /\ Numbered /\ Unborn /\ Pending /\ Resting /\ \A e \in Devices : PhoneInv(e)
  BY DEF IInv
<1>1. /\ GiveUp(d) /\ troubles < MaxTroubles /\ troubles' = troubles + 1
      /\ stmt' = [stmt EXCEPT ![<<d, "now">>] = Quiet]
      /\ born' = born /\ edits' = edits /\ rows' = rows /\ log' = log
      /\ entry' = entry /\ dirty' = dirty /\ cursor' = cursor
  BY DEF PushLost, Trouble
<1>2. /\ troubles' \in 0 .. MaxTroubles /\ stmt' \in [Writers -> StmtType]
      /\ stmt'[<<d, "now">>] = Quiet /\ \A u \in Writers \ {<<d, "now">>} : stmt'[u] = stmt[u]
  <2>1. /\ stmt \in [Writers -> StmtType] /\ Quiet \in StmtType /\ <<d, "now">> \in Writers
        /\ troubles \in 0 .. MaxTroubles
    BY <1>0, Typed, Blanks, WriterKinds
  <2>2. troubles' \in 0 .. MaxTroubles
    BY <1>1, <2>1, SyncAssumption
  <2> QED BY <1>1, <2>1, <2>2
<1>3. /\ TypeOK' /\ sync'[d] = Idle /\ \A e \in Devices \ {d} : sync'[e] = sync[e]
      /\ \A e \in Devices : Reach(e) \in Nat /\ Reach(e)' \in Nat /\ Reach(e)' <= Reach(e)
      /\ \A e \in Devices : Reach(e)' \in Nat /\ cursor'[e] <= Reach(e)' /\ Reach(e)' <= Len(log')
      /\ \A m \in Memories : rows'[m].version <= Len(log')
      /\ \A e \in Devices, m \in Memories : sync'[e].page[m].version <= Len(log')
      /\ \A e \in Devices :
           /\ dirty'[e] \subseteq born' /\ sync'[e].dead \subseteq born'
           /\ \A m \in Memories : entry'[e][m].held \/ sync'[e].sent[m].held
                                    \/ sync'[e].page[m].version # 0 => m \in born'
  BY <1>1, <1>2, RoundGivenUp
<1>4. /\ Pending' /\ LogGrows
      /\ \A u \in Writers, m \in Memories :
           stmt'[u].seen[m].version <= Len(log) /\ stmt'[u].answer[m].row.version <= Len(log)
      /\ \A e \in Devices \ {d} : stmt'[<<e, "now">>] = stmt[<<e, "now">>]
  BY <1>1, <1>2, <1>3, Blanks, FreshStatement, ZenonT(40)
<1>5. Numbered'
  BY <1>1, <1>3, <1>4 DEF Numbered
<1>6. Unborn'
  <2>1. \A m \in Memories : ~stmt'[<<d, "now">>].items[m].held
                            /\ stmt'[<<d, "now">>].answer[m].kind # "applied"
    BY <1>2, Blanks DEF NoCopies
  <2>2. \A u \in Writers, m \in Memories :
          stmt'[u].items[m].held \/ stmt'[u].answer[m].kind = "applied" => m \in born
    BY <1>0, <1>2, <2>1 DEF Unborn
  <2>3. \A m \in Memories : rows'[m].version # 0 => m \in born
    BY <1>0, <1>1 DEF Unborn
  <2> QED BY <1>1, <1>3, <2>2, <2>3 DEF Unborn
<1>7. Resting'
  BY <1>0, <1>2 DEF Resting
<1>8. ASSUME NEW e \in Devices PROVE PhoneInv(e)'
  <2>1. CASE e = d
    BY <1>1, <1>2, <1>3, <2>1, GivenUp
  <2>2. CASE e # d
    BY <1>0, <1>1, <1>3, <1>4, <2>2, PhoneKept
  <2> QED BY <2>1, <2>2
<1> QED BY <1>3, <1>4, <1>5, <1>6, <1>7, <1>8 DEF IInv

(* A push that outlives its caller takes its numbers along. *)
LEMMA PushOutlivedKeeps ==
  ASSUME IInv, NEW d \in Devices, PushOutlived(d)
  PROVE  IInv'
<1> DEFINE now == <<d, "now">>
           late == <<d, "late">>
<1>0. TypeOK /\ Numbered /\ Unborn /\ Pending /\ Resting /\ \A e \in Devices : PhoneInv(e)
  BY DEF IInv
<1>1. /\ GiveUp(d) /\ troubles < MaxTroubles /\ troubles' = troubles + 1
      /\ stmt[now].stage # "none" /\ stmt[late].stage = "none"
      /\ stmt' = [stmt EXCEPT ![late] = stmt[now], ![now] = Quiet]
      /\ born' = born /\ edits' = edits /\ rows' = rows /\ log' = log
      /\ entry' = entry /\ dirty' = dirty /\ cursor' = cursor
  BY DEF PushOutlived, Trouble
<1>2. now \in Writers /\ late \in Writers /\ now # late /\ \A e \in Devices : <<e, "now">> # late
  BY WriterKinds
<1> HIDE DEF now, late
<1>3. /\ troubles' \in 0 .. MaxTroubles /\ stmt' \in [Writers -> StmtType]
      /\ stmt'[now] = Quiet /\ stmt'[late] = stmt[now]
      /\ \A u \in Writers \ {now, late} : stmt'[u] = stmt[u]
  <2>1. /\ stmt \in [Writers -> StmtType] /\ stmt[now] \in StmtType /\ Quiet \in StmtType
        /\ troubles \in 0 .. MaxTroubles
    BY <1>0, <1>2, Typed, Blanks
  <2>2. troubles' \in 0 .. MaxTroubles
    BY <1>1, <2>1, SyncAssumption
  <2> QED BY <1>1, <1>2, <2>1, <2>2
<1>4. /\ TypeOK' /\ sync'[d] = Idle /\ \A e \in Devices \ {d} : sync'[e] = sync[e]
      /\ LogGrows
      /\ \A e \in Devices : Reach(e) \in Nat /\ Reach(e)' \in Nat /\ Reach(e)' <= Reach(e)
      /\ \A e \in Devices : Reach(e)' \in Nat /\ cursor'[e] <= Reach(e)' /\ Reach(e)' <= Len(log')
      /\ \A m \in Memories : rows'[m].version <= Len(log')
      /\ \A e \in Devices, m \in Memories : sync'[e].page[m].version <= Len(log')
      /\ \A e \in Devices :
           /\ dirty'[e] \subseteq born' /\ sync'[e].dead \subseteq born'
           /\ \A m \in Memories : entry'[e][m].held \/ sync'[e].sent[m].held
                                    \/ sync'[e].page[m].version # 0 => m \in born'
  BY <1>1, <1>3, RoundGivenUp
<1>5. /\ \A m \in Memories : /\ Quiet.seen[m].version = 0 /\ Quiet.answer[m].row.version = 0
                             /\ ~Quiet.items[m].held /\ Quiet.answer[m].kind # "applied"
      /\ 0 <= Len(log) /\ Quiet.stage = "none"
  BY <1>0, RowsNumbered, Blanks DEF NoRows, NoCopies
<1>6. \A u \in Writers : \/ u = now /\ stmt'[u] = Quiet
                         \/ u = late /\ stmt'[u] = stmt[now]
                         \/ u \notin {now, late} /\ stmt'[u] = stmt[u]
  BY <1>3
<1>7. Numbered'
  <2>1. ASSUME NEW u \in Writers, NEW m \in Memories
        PROVE  stmt'[u].seen[m].version <= Len(log) /\ stmt'[u].answer[m].row.version <= Len(log)
    BY <1>0, <1>2, <1>5, <1>6 DEF Numbered
  <2> QED BY <1>1, <1>4, <2>1 DEF Numbered
<1>8. Unborn'
  <2>1. ASSUME NEW u \in Writers, NEW m \in Memories,
               stmt'[u].items[m].held \/ stmt'[u].answer[m].kind = "applied"
        PROVE  m \in born
    BY <1>0, <1>2, <1>5, <1>6, <2>1 DEF Unborn
  <2>2. \A m \in Memories : rows'[m].version # 0 => m \in born
    BY <1>0, <1>1 DEF Unborn
  <2> QED BY <1>1, <1>4, <2>1, <2>2 DEF Unborn
<1>9. Resting'
  BY <1>0, <1>1, <1>2, <1>6, Zenon DEF Resting
<1>10. Pending'
  <2> DEFINE heir(u) == IF u = late THEN now ELSE u
  <2>1. ASSUME NEW u \in Writers, NEW m \in Writes(u)'
        PROVE  heir(u) \in Writers /\ m \in Writes(heir(u)) /\ stmt'[u] = stmt[heir(u)] /\ u # now
    BY <1>2, <1>5, <1>6, <2>1 DEF Writes
  <2> SUFFICES ASSUME NEW u \in Writers, NEW m \in Writes(u)'
               PROVE  /\ stmt'[u].answer[m].row.version \in DOMAIN log'
                      /\ log'[stmt'[u].answer[m].row.version].memory = m
                      /\ \A n \in Memories : rows'[n].version # stmt'[u].answer[m].row.version
                      /\ \A x \in Writers \ {u} : \A n \in Writes(x)' :
                           stmt'[x].answer[n].row.version # stmt'[u].answer[m].row.version
                      /\ \A e \in Devices : \/ stmt'[u].answer[m].row.version > Reach(e)'
                                            \/ e \in log'[stmt'[u].answer[m].row.version].overtaken
    BY DEF Pending
  <2>2. heir(u) \in Writers /\ m \in Writes(heir(u)) /\ stmt'[u] = stmt[heir(u)] /\ u # now
    BY <2>1
  <2>3. /\ stmt'[u].answer[m].row.version \in DOMAIN log
        /\ log[stmt'[u].answer[m].row.version].memory = m
        /\ \A n \in Memories : rows[n].version # stmt'[u].answer[m].row.version
        /\ \A x \in Writers \ {heir(u)} : \A n \in Writes(x) :
             stmt[x].answer[n].row.version # stmt'[u].answer[m].row.version
        /\ \A e \in Devices : \/ stmt'[u].answer[m].row.version > Reach(e)
                              \/ e \in log[stmt'[u].answer[m].row.version].overtaken
    <3> HIDE DEF heir
    <3> QED BY <1>0, <2>2 DEF Pending
  <2>4. ASSUME NEW x \in Writers \ {u}, NEW n \in Writes(x)'
        PROVE  stmt'[x].answer[n].row.version # stmt'[u].answer[m].row.version
    <3>1. heir(x) \in Writers /\ n \in Writes(heir(x)) /\ stmt'[x] = stmt[heir(x)] /\ x # now
      BY <2>1
    <3>2. heir(x) # heir(u)
      BY <2>2, <3>1
    <3> HIDE DEF heir
    <3> QED BY <2>3, <3>1, <3>2
  <2>5. stmt'[u].answer[m].row.version \in Nat
    BY <1>3, <2>2, AnswersTyped DEF Writes
  <2>6. ASSUME NEW e \in Devices
        PROVE  \/ stmt'[u].answer[m].row.version > Reach(e)'
               \/ e \in log'[stmt'[u].answer[m].row.version].overtaken
    <3>1. Reach(e) \in Nat /\ Reach(e)' \in Nat /\ Reach(e)' <= Reach(e)
      BY <1>4
    <3>2. \/ stmt'[u].answer[m].row.version > Reach(e)
          \/ e \in log[stmt'[u].answer[m].row.version].overtaken
      BY <2>3
    <3> HIDE DEF heir
    <3> QED BY <1>1, <2>5, <3>1, <3>2
  <2> QED BY <1>1, <2>3, <2>4, <2>6, Zenon
<1>11. ASSUME NEW e \in Devices PROVE PhoneInv(e)'
  <2>1. CASE e = d
    <3>1. stmt'[<<d, "now">>] = Quiet
      BY <1>3 DEF now
    <3> QED BY <1>1, <1>4, <2>1, <3>1, GivenUp
  <2>2. CASE e # d
    <3>1. <<e, "now">> \in Writers \ {now, late}
      BY <1>2, <2>2, WriterKinds DEF now
    <3>2. stmt'[<<e, "now">>] = stmt[<<e, "now">>]
      BY <1>3, <3>1
    <3> QED BY <1>0, <1>1, <1>4, <2>2, <3>2, PhoneKept
  <2> QED BY <2>1, <2>2
<1> QED BY <1>4, <1>7, <1>8, <1>9, <1>10, <1>11 DEF IInv

(* The parts of what an answer makes of a copy. *)
LEMMA AfterFields ==
  ASSUME NEW after, NEW settled, NEW refetch, NEW copy,
         after = [settled |-> settled, refetch |-> refetch, copy |-> copy]
  PROVE  after.settled = settled /\ after.refetch = refetch /\ after.copy = copy
OBVIOUS

(* What the answer of a push leaves of a copy shows the row, or the row is fresh, *)
(* or the phone starts over from the beginning.                                    *)
LEMMA AnswerTaken ==
  ASSUME IInv, NEW d \in Devices, sync[d].pc = "push", stmt[<<d, "now">>].stage = "done",
         NEW m \in Memories, NEW after,
         after = After(stmt[<<d, "now">>].answer[m], sync[d].sent[m], entry[d][m])
  PROVE  /\ after.copy \in CopyType /\ after.settled \in BOOLEAN /\ after.refetch \in BOOLEAN
         /\ after.copy.held => m \in born
         /\ \/ rows[m].version = 0
            \/ Fresh(d, m)
            \/ after.refetch
            \/ rows[m].deleted /\ ~after.copy.held
            \/ /\ ~rows[m].deleted /\ after.copy.held /\ after.copy.version = rows[m].version
               /\ \/ m \in dirty[d] /\ m \notin sync[d].dead /\ ~after.settled
                  \/ after.copy.text = rows[m].text
<1> DEFINE answer == stmt[<<d, "now">>].answer[m]
           sent == sync[d].sent[m]
           latest == entry[d][m]
<1>0. TypeOK /\ Unborn /\ Pushing(d) /\ Answering(d) /\ View(d, m)
  BY DEF IInv, PhoneInv
<1>1. /\ answer \in Answers /\ sent \in CopyType /\ latest \in CopyType
      /\ answer.kind \in {"none", "applied", "conflict", "rejected"} /\ answer.row \in RowType
  <2>0. <<d, "now">> \in Writers
    BY WriterKinds
  <2>1. stmt[<<d, "now">>] \in StmtType /\ sync[d] \in SyncType /\ latest \in CopyType
    BY <1>0, <2>0, Typed
  <2>2. answer \in Answers
    BY <2>1 DEF StmtType
  <2>3. sent \in CopyType
    BY <2>1 DEF SyncType
  <2> QED BY <2>1, <2>2, <2>3 DEF Answers
<1>2. /\ answer.kind # "none" => sent.held /\ m \in dirty[d] /\ latest.held /\ m \notin sync[d].dead
                                 /\ latest.version = sent.version /\ m \in born
      /\ answer.kind = "conflict" => answer.row = rows[m] \/ Fresh(d, m)
      /\ answer.kind = "applied" => Fresh(d, m)
      /\ m \in sync[d].dead => ~latest.held
      /\ latest.held => m \in born
  BY <1>0 DEF Pushing, Answering, Unborn
<1>3. after = After(answer, sent, latest) /\ after.copy \in CopyType
  BY <1>1, AfterTyped
<1>4. /\ latest.held \in BOOLEAN /\ rows[m].version \in Nat /\ rows[m].deleted \in BOOLEAN
      /\ answer.row.version \in Nat /\ ~NoCopy.held /\ sent.version \in Nat
  BY <1>0, <1>1, Typed, Blanks DEF CopyType, RowType
<1> HIDE DEF answer, sent, latest
<1>5. CASE answer.kind = "applied"
  <2>1. after = AfterApplied(sent, latest, answer.row)
    BY <1>3, <1>5 DEF After
  <2>2. after.settled \in BOOLEAN /\ after.refetch \in BOOLEAN
    BY <2>1 DEF AfterApplied
  <2> QED BY <1>2, <1>3, <1>5, <2>2
<1>6. CASE answer.kind = "conflict"
  <2> DEFINE kept == [latest EXCEPT !.version = answer.row.version]
             taken == CopyOf(answer.row)
  <2>1. after = AfterConflict(sent, latest, answer.row)
    BY <1>3, <1>6 DEF After
  <2>2. \/ /\ answer.row.version = 0 \/ answer.row.deleted
           /\ after = [settled |-> TRUE, refetch |-> FALSE, copy |-> NoCopy]
        \/ /\ ~answer.row.deleted /\ latest.held
           /\ after = [settled |-> FALSE, refetch |-> FALSE,
                       copy |-> kept]
        \/ /\ ~answer.row.deleted
           /\ after = [settled |-> TRUE, refetch |-> FALSE, copy |-> taken]
    BY <2>1, Zenon DEF AfterConflict
  <2>3. /\ kept.held = latest.held /\ kept.version = answer.row.version
        /\ taken.held /\ taken.text = answer.row.text /\ taken.version = answer.row.version
    <3>1. kept.held = latest.held /\ kept.version = answer.row.version
      BY <1>1 DEF CopyType
    <3>2. taken.held /\ taken.text = answer.row.text /\ taken.version = answer.row.version
      BY DEF CopyOf
    <3> QED BY <3>1, <3>2
  <2> HIDE DEF kept, taken
  <2>4. \/ /\ answer.row.version = 0 \/ answer.row.deleted
           /\ after.settled = TRUE /\ after.refetch = FALSE /\ after.copy = NoCopy
        \/ /\ ~answer.row.deleted /\ latest.held
           /\ after.settled = FALSE /\ after.refetch = FALSE /\ after.copy = kept
        \/ /\ ~answer.row.deleted
           /\ after.settled = TRUE /\ after.refetch = FALSE /\ after.copy = taken
    <3>1. CASE /\ answer.row.version = 0 \/ answer.row.deleted
               /\ after = [settled |-> TRUE, refetch |-> FALSE, copy |-> NoCopy]
      <4>1. after.settled = TRUE /\ after.refetch = FALSE /\ after.copy = NoCopy
        BY <3>1, AfterFields
      <4> QED BY <3>1, <4>1
    <3>2. CASE /\ ~answer.row.deleted /\ latest.held
               /\ after = [settled |-> FALSE, refetch |-> FALSE, copy |-> kept]
      <4>1. after.settled = FALSE /\ after.refetch = FALSE /\ after.copy = kept
        BY <3>2, AfterFields
      <4> QED BY <3>2, <4>1
    <3>3. CASE /\ ~answer.row.deleted
               /\ after = [settled |-> TRUE, refetch |-> FALSE, copy |-> taken]
      <4>1. after.settled = TRUE /\ after.refetch = FALSE /\ after.copy = taken
        BY <3>3, AfterFields
      <4> QED BY <3>3, <4>1
    <3> QED BY <2>2, <3>1, <3>2, <3>3
  <2>5. after.settled \in BOOLEAN /\ after.refetch \in BOOLEAN
    <3>1. TRUE \in BOOLEAN /\ FALSE \in BOOLEAN
      OBVIOUS
    <3> QED BY <2>4, <3>1, Zenon
  <2>6. CASE answer.row = rows[m]
    <3>1. CASE /\ answer.row.version = 0 \/ answer.row.deleted
               /\ after.settled = TRUE /\ after.refetch = FALSE /\ after.copy = NoCopy
      BY <1>2, <1>3, <1>4, <1>6, <2>5, <2>6, <3>1
    <3>2. CASE /\ ~answer.row.deleted /\ latest.held
               /\ after.settled = FALSE /\ after.refetch = FALSE /\ after.copy = kept
      BY <1>2, <1>3, <1>6, <2>3, <2>5, <2>6, <3>2
    <3>3. CASE /\ ~answer.row.deleted
               /\ after.settled = TRUE /\ after.refetch = FALSE /\ after.copy = taken
      BY <1>2, <1>3, <1>6, <2>3, <2>5, <2>6, <3>3
    <3> QED BY <2>4, <3>1, <3>2, <3>3, Zenon
  <2>7. CASE Fresh(d, m)
    BY <1>2, <1>3, <1>6, <2>5, <2>7
  <2> QED BY <1>2, <1>6, <2>6, <2>7
<1>7. CASE answer.kind = "rejected"
  <2>1. /\ after.settled = TRUE /\ after.refetch = (sent.version # 0)
        /\ after.copy = IF sent.version = 0 THEN NoCopy ELSE latest
    <3>1. after = AfterRejected(sent, latest)
      BY <1>3, <1>7 DEF After
    <3>2. after = [settled |-> TRUE, refetch |-> sent.version # 0,
                   copy |-> IF sent.version = 0 THEN NoCopy ELSE latest]
      BY <3>1, Zenon DEF AfterRejected
    <3>3. PICK refetch : refetch = (sent.version # 0)
      OBVIOUS
    <3>4. after = [settled |-> TRUE, refetch |-> refetch,
                   copy |-> IF sent.version = 0 THEN NoCopy ELSE latest]
      BY <3>2, <3>3, Zenon
    <3>5. /\ after.settled = TRUE /\ after.refetch = refetch
          /\ after.copy = IF sent.version = 0 THEN NoCopy ELSE latest
      BY <3>4, AfterFields
    <3> QED BY <3>3, <3>5, Zenon
  <2>2. CASE sent.version # 0
    <3>1. after.settled = TRUE /\ after.refetch = TRUE
      BY <2>1, <2>2, Zenon
    <3>2. after.settled \in BOOLEAN /\ after.refetch \in BOOLEAN
      BY <3>1
    <3>3. after.copy.held => m \in born
      BY <1>2, <1>7
    <3> QED BY <1>3, <3>1, <3>2, <3>3, Zenon
  <2>3. CASE sent.version = 0
    <3>1. latest.held /\ latest.version = 0
      BY <1>2, <1>7, <2>3
    <3>2. rows[m].version = 0 \/ Fresh(d, m)
      BY <1>0, <3>1 DEF View, latest
    <3>3. after.settled = TRUE /\ after.refetch = FALSE
      BY <2>1, <2>3, Zenon
    <3> QED BY <1>2, <1>3, <1>7, <3>2, <3>3
  <2> QED BY <2>2, <2>3
<1>8. CASE answer.kind = "none"
  <2>1. after = [settled |-> FALSE, refetch |-> FALSE, copy |-> latest]
    BY <1>3, <1>8 DEF After
  <2> QED BY <1>0, <1>2, <1>3, <2>1 DEF View, latest
<1> QED BY <1>1, <1>5, <1>6, <1>7, <1>8, Zenon

(* The phone that takes the answer of its push keeps the invariant. *)
LEMMA PushAnsweredKeeps ==
  ASSUME IInv, NEW d \in Devices, PushAnswered(d)
  PROVE  IInv'
<1> DEFINE now == <<d, "now">>
           after == [m \in Memories |-> After(stmt[now].answer[m], sync[d].sent[m], entry[d][m])]
           copies == [m \in Memories |-> after[m].copy]
           gone == sync[d].dead \cup {m \in Memories : after[m].settled}
           since == IF \E m \in Memories : after[m].refetch THEN 0 ELSE cursor[d]
           pull == [Idle EXCEPT !.pc = "pull"]
<1>0. TypeOK /\ Numbered /\ Unborn /\ Pending /\ Resting /\ \A e \in Devices : PhoneInv(e)
  BY DEF IInv
<1>1. /\ sync[d].pc = "push" /\ stmt[now].stage = "done"
      /\ entry' = [entry EXCEPT ![d] = copies]
      /\ dirty' = [dirty EXCEPT ![d] = @ \ gone]
      /\ cursor' = [cursor EXCEPT ![d] = since]
      /\ sync' = [sync EXCEPT ![d] = pull]
      /\ stmt' = [stmt EXCEPT ![now] = Quiet]
      /\ rows' = rows /\ log' = log /\ UNCHANGED budget
  BY DEF PushAnswered
<1>2. \A m \in Memories : after[m] = After(stmt[now].answer[m], sync[d].sent[m], entry[d][m])
  OBVIOUS
<1> HIDE DEF after
<1>3. ASSUME NEW m \in Memories
      PROVE  /\ after[m].copy \in CopyType /\ after[m].settled \in BOOLEAN /\ after[m].refetch \in BOOLEAN
             /\ after[m].copy.held => m \in born
             /\ \/ rows[m].version = 0
                \/ Fresh(d, m)
                \/ after[m].refetch
                \/ rows[m].deleted /\ ~after[m].copy.held
                \/ /\ ~rows[m].deleted /\ after[m].copy.held /\ after[m].copy.version = rows[m].version
                   /\ \/ m \in dirty[d] /\ m \notin sync[d].dead /\ ~after[m].settled
                      \/ after[m].copy.text = rows[m].text
  BY <1>1, <1>2, AnswerTaken
<1>4. copies \in [Memories -> CopyType] /\ \A m \in Memories : copies[m] = after[m].copy
  BY <1>3
<1>5. /\ since \in Nat /\ since <= cursor[d] /\ cursor[d] \in Nat
      /\ \A m \in Memories : after[m].refetch => since = 0
  BY <1>0, Typed
<1>6. \A m \in Memories : m \in gone <=> m \in sync[d].dead \/ after[m].settled
  OBVIOUS
<1>7. /\ pull \in SyncType /\ pull.pc = "pull" /\ ~pull.read /\ pull.page = NoRows
      /\ pull.dead = {} /\ pull.sent = NoCopies
  BY Blanks DEF SyncType
<1> HIDE DEF copies, since, pull, gone
<1>8. now \in Writers /\ Quiet \in StmtType /\ \A e \in Devices \ {d} : <<e, "now">> # now
  BY WriterKinds, Blanks
<1> HIDE DEF now
<1>9. /\ entry' \in [Devices -> [Memories -> CopyType]] /\ entry'[d] = copies
      /\ dirty' \in [Devices -> SUBSET Memories] /\ dirty'[d] = dirty[d] \ gone
      /\ cursor' \in [Devices -> Nat] /\ cursor'[d] = since
      /\ sync' \in [Devices -> SyncType] /\ sync'[d] = pull
      /\ stmt' \in [Writers -> StmtType] /\ stmt'[now] = Quiet
      /\ \A u \in Writers \ {now} : stmt'[u] = stmt[u]
      /\ \A e \in Devices \ {d} : entry'[e] = entry[e] /\ dirty'[e] = dirty[e]
                                  /\ cursor'[e] = cursor[e] /\ sync'[e] = sync[e]
  <2>1. /\ entry \in [Devices -> [Memories -> CopyType]] /\ dirty \in [Devices -> SUBSET Memories]
        /\ cursor \in [Devices -> Nat] /\ sync \in [Devices -> SyncType]
        /\ stmt \in [Writers -> StmtType]
    BY <1>0, Typed
  <2>2. /\ entry' \in [Devices -> [Memories -> CopyType]] /\ entry'[d] = copies
        /\ cursor' \in [Devices -> Nat] /\ cursor'[d] = since
        /\ sync' \in [Devices -> SyncType] /\ sync'[d] = pull
    BY <1>1, <1>4, <1>5, <1>7, <2>1
  <2>3. /\ dirty' \in [Devices -> SUBSET Memories] /\ dirty'[d] = dirty[d] \ gone
        /\ stmt' \in [Writers -> StmtType] /\ stmt'[now] = Quiet
        /\ \A u \in Writers \ {now} : stmt'[u] = stmt[u]
    BY <1>1, <1>8, <2>1
  <2>4. \A e \in Devices \ {d} : entry'[e] = entry[e] /\ dirty'[e] = dirty[e]
                                 /\ cursor'[e] = cursor[e] /\ sync'[e] = sync[e]
    BY <1>1, <2>1
  <2> QED BY <2>2, <2>3, <2>4
<1>10. born' = born /\ edits' = edits /\ troubles' = troubles
  BY <1>1 DEF budget
<1>11. TypeOK'
  BY <1>0, <1>1, <1>9, <1>10, Typed DEF TypeOK
<1>12. /\ \A e \in Devices : /\ Reach(e) \in Nat /\ Reach(e)' \in Nat /\ Reach(e)' <= Reach(e)
                             /\ cursor'[e] <= Reach(e)' /\ Reach(e)' <= Len(log)
       /\ Len(log) \in Nat
  <2>1. \A e \in Devices : /\ Reach(e) \in Nat /\ cursor[e] \in Nat /\ cursor[e] <= Reach(e)
                           /\ Reach(e) <= Len(log)
    BY <1>0, ReachTyped
  <2>2. Reach(d)' = since /\ \A e \in Devices \ {d} : Reach(e)' = Reach(e)
    BY <1>7, <1>9 DEF Reach
  <2>3. Len(log) \in Nat
    BY <1>0, RowsNumbered
  <2>4. /\ Reach(d) \in Nat /\ Reach(d)' \in Nat /\ Reach(d)' <= Reach(d)
        /\ cursor'[d] <= Reach(d)' /\ Reach(d)' <= Len(log)
    BY <1>5, <1>9, <2>1, <2>2, <2>3
  <2>5. ASSUME NEW e \in Devices \ {d}
        PROVE  /\ Reach(e) \in Nat /\ Reach(e)' \in Nat /\ Reach(e)' <= Reach(e)
               /\ cursor'[e] <= Reach(e)' /\ Reach(e)' <= Len(log)
    <3>1. Reach(e)' = Reach(e) /\ cursor'[e] = cursor[e]
      BY <1>9, <2>2
    <3>2. /\ Reach(e) \in Nat /\ cursor[e] \in Nat /\ cursor[e] <= Reach(e) /\ Reach(e) <= Len(log)
      BY <2>1
    <3> QED BY <3>1, <3>2
  <2> QED BY <2>3, <2>4, <2>5
<1>13. /\ Pending' /\ LogGrows
       /\ \A u \in Writers, m \in Memories :
            stmt'[u].seen[m].version <= Len(log) /\ stmt'[u].answer[m].row.version <= Len(log)
       /\ \A e \in Devices \ {d} : stmt'[<<e, "now">>] = stmt[<<e, "now">>]
  <2>1. Quiet.stage # "written" /\ Quiet.seen = NoRows
        /\ \A m \in Memories : Quiet.answer[m] = [kind |-> "none", row |-> NoRow]
    BY Blanks
  <2>2. /\ stmt'[now].stage # "written" /\ stmt'[now].seen = NoRows
        /\ \A m \in Memories : stmt'[now].answer[m] = [kind |-> "none", row |-> NoRow]
    BY <1>9, <2>1
  <2> USE DEF now
  <2>3. rows' = rows /\ log' = log /\ stmt' \in [Writers -> StmtType]
        /\ \A u \in Writers \ {<<d, "now">>} : stmt'[u] = stmt[u]
    BY <1>1, <1>9
  <2>4. \A e \in Devices : Reach(e)' \in Nat /\ Reach(e)' <= Reach(e)
    BY <1>12
  <2> QED BY <2>2, <2>3, <2>4, FreshStatement
<1>14. Numbered'
  <2>1. \A m \in Memories : pull.page[m].version = 0
    BY <1>7, Blanks DEF NoRows
  <2>2. \A e \in Devices, m \in Memories : sync'[e].page[m].version <= Len(log)
    <3>1. \A m \in Memories : sync'[d].page[m].version <= Len(log)
      BY <1>9, <1>12, <2>1
    <3>2. \A e \in Devices \ {d}, m \in Memories : sync'[e].page[m].version <= Len(log)
      BY <1>0, <1>9 DEF Numbered
    <3> QED BY <3>1, <3>2
  <2> QED BY <1>0, <1>1, <1>12, <1>13, <2>2 DEF Numbered
<1>15. Unborn'
  <2>1. \A m \in Memories : ~pull.sent[m].held /\ pull.page[m].version = 0
    BY <1>7, Blanks DEF NoRows, NoCopies
  <2>2. \A u \in Writers, m \in Memories :
          stmt'[u].items[m].held \/ stmt'[u].answer[m].kind = "applied" => m \in born
    <3>1. \A m \in Memories : ~Quiet.items[m].held /\ Quiet.answer[m].kind # "applied"
      BY Blanks DEF NoCopies
    <3>2. \A m \in Memories : stmt'[now].items[m].held \/ stmt'[now].answer[m].kind = "applied" => m \in born
      BY <1>9, <3>1
    <3>3. \A u \in Writers \ {now}, m \in Memories :
            stmt'[u].items[m].held \/ stmt'[u].answer[m].kind = "applied" => m \in born
      BY <1>0, <1>9 DEF Unborn
    <3> QED BY <3>2, <3>3
  <2>3. /\ dirty'[d] \subseteq born /\ sync'[d].dead \subseteq born
        /\ \A m \in Memories : entry'[d][m].held \/ sync'[d].sent[m].held
                                 \/ sync'[d].page[m].version # 0 => m \in born
    <3>1. dirty[d] \subseteq born
      BY <1>0 DEF Unborn
    <3> QED BY <1>3, <1>4, <1>7, <1>9, <2>1, <3>1
  <2>4. \A e \in Devices \ {d} :
          /\ dirty'[e] \subseteq born /\ sync'[e].dead \subseteq born
          /\ \A m \in Memories : entry'[e][m].held \/ sync'[e].sent[m].held
                                   \/ sync'[e].page[m].version # 0 => m \in born
    BY <1>0, <1>9 DEF Unborn
  <2>5. \A m \in Memories : rows'[m].version # 0 => m \in born
    BY <1>0, <1>1 DEF Unborn
  <2> QED BY <1>10, <2>2, <2>3, <2>4, <2>5 DEF Unborn
<1>16. Resting'
  BY <1>0, <1>9 DEF Resting
<1>17. ASSUME NEW e \in Devices \ {d} PROVE PhoneInv(e)'
  BY <1>0, <1>1, <1>9, <1>13, PhoneKept
<1>18. PhoneInv(d)'
  <2>1. Pushing(d)' /\ Answering(d)' /\ Reading(d)'
    BY <1>7, <1>9, Blanks DEF Pushing, Answering, Reading, now
  <2>2. ASSUME NEW m \in Memories PROVE View(d, m)'
    <3>1. entry'[d][m] = after[m].copy
      BY <1>4, <1>9
    <3>2. rows[m].version \in Nat
      BY <1>0, RowsNumbered
    <3>3. CASE Fresh(d, m)
      BY <1>1, <1>5, <1>9, <3>2, <3>3 DEF View, Fresh
    <3>4. CASE after[m].refetch
      BY <1>1, <1>5, <1>9, <3>2, <3>4 DEF View, Fresh
    <3>5. CASE rows[m].version = 0
      BY <1>1, <3>5 DEF View
    <3>6. CASE rows[m].deleted /\ ~after[m].copy.held
      BY <1>1, <3>1, <3>6 DEF View
    <3>7. CASE /\ ~rows[m].deleted /\ after[m].copy.held /\ after[m].copy.version = rows[m].version
               /\ \/ m \in dirty[d] /\ m \notin sync[d].dead /\ ~after[m].settled
                  \/ after[m].copy.text = rows[m].text
      BY <1>1, <1>6, <1>9, <3>1, <3>7 DEF View
    <3> QED BY <1>3, <3>3, <3>4, <3>5, <3>6, <3>7
  <2> QED BY <2>1, <2>2 DEF PhoneInv
<1> QED BY <1>11, <1>13, <1>14, <1>15, <1>16, <1>17, <1>18 DEF IInv

(* A page that is read marks the numbers it goes beyond, and changes nothing else. *)
LEMMA HandlePullShape ==
  ASSUME IInv, NEW d \in Devices, HandlePull(d)
  PROVE  \E page \in [Memories -> RowType] :
         LET F == Frontier(cursor[d], page)
         IN  /\ \A m \in Memories : page[m] = IF m \in Page(cursor[d]) THEN rows[m] ELSE NoRow
             /\ F \in Nat /\ cursor[d] <= F /\ F <= Len(log)
             /\ \A m \in Memories : page[m].version <= F
             /\ F = cursor[d] \/ \E m \in Memories : F = page[m].version
             /\ sync' \in [Devices -> SyncType]
             /\ sync'[d] = [sync[d] EXCEPT !.read = TRUE, !.page = page]
             /\ \A e \in Devices \ {d} : sync'[e] = sync[e]
             /\ log' \in Seq(LogType) /\ Len(log') = Len(log) /\ LogGrows
             /\ \A w \in Writers : \A m \in Writes(w) :
                  stmt[w].answer[m].row.version < F
                  => d \in log'[stmt[w].answer[m].row.version].overtaken
             /\ sync[d].pc = "pull" /\ ~sync[d].read
             /\ rows' = rows /\ stmt' = stmt /\ entry' = entry /\ dirty' = dirty /\ cursor' = cursor
             /\ UNCHANGED budget
<1> DEFINE ids == Page(cursor[d])
           page == [m \in Memories |-> IF m \in ids THEN rows[m] ELSE NoRow]
           uncommitted == UNION {{stmt[w].answer[m].row.version : m \in Writes(w)} : w \in Writers}
           F == Frontier(cursor[d], page)
           marked(v) == IF v \in uncommitted /\ v < F
                        THEN [log[v] EXCEPT !.overtaken = @ \cup {d}] ELSE log[v]
<1>0. TypeOK /\ Numbered /\ Pending
  BY DEF IInv
<1>1. /\ sync[d].pc = "pull" /\ ~sync[d].read
      /\ sync' = [sync EXCEPT ![d].read = TRUE, ![d].page = page]
      /\ log' = [v \in DOMAIN log |-> marked(v)]
      /\ rows' = rows /\ stmt' = stmt /\ entry' = entry /\ dirty' = dirty /\ cursor' = cursor
      /\ UNCHANGED budget
  BY DEF HandlePull
<1>2. /\ rows \in [Memories -> RowType] /\ log \in Seq(LogType) /\ sync \in [Devices -> SyncType]
      /\ cursor[d] \in Nat /\ stmt \in [Writers -> StmtType]
      /\ Len(log) \in Nat /\ DOMAIN log = 1 .. Len(log)
  BY <1>0, Typed, RowsNumbered
<1>3. /\ page \in [Memories -> RowType]
      /\ \A m \in Memories : page[m] = IF m \in ids THEN rows[m] ELSE NoRow
  BY <1>2, Blanks
<1>4. \A m \in Memories : page[m].version <= Len(log)
  BY <1>0, <1>2, <1>3, Blanks DEF Numbered
<1> HIDE DEF page, ids
<1>5. cursor[d] <= Len(log)
  BY <1>0, <1>2, ReachTyped
<1>6. /\ F \in Nat /\ cursor[d] <= F /\ F <= Len(log)
      /\ \A m \in Memories : page[m].version <= F
      /\ F = cursor[d] \/ \E m \in Memories : F = page[m].version
  BY <1>2, <1>3, <1>4, <1>5, FrontierFacts
<1> HIDE DEF F, uncommitted
<1>7. /\ sync' \in [Devices -> SyncType]
      /\ sync'[d] = [sync[d] EXCEPT !.read = TRUE, !.page = page]
      /\ \A e \in Devices \ {d} : sync'[e] = sync[e]
  <2> DEFINE s == [sync[d] EXCEPT !.read = TRUE, !.page = page]
  <2>1. sync' = [sync EXCEPT ![d] = s]
    BY <1>1
  <2>2. s \in SyncType
    BY <1>2, <1>3 DEF SyncType
  <2> HIDE DEF s
  <2>3. sync' \in [Devices -> SyncType] /\ sync'[d] = s /\ \A e \in Devices \ {d} : sync'[e] = sync[e]
    BY <1>2, <2>1, <2>2
  <2> QED BY <2>3 DEF s
<1>8. ASSUME NEW v \in DOMAIN log
      PROVE  /\ marked(v) \in LogType /\ marked(v).memory = log[v].memory
             /\ marked(v).text = log[v].text /\ marked(v).deleted = log[v].deleted
             /\ log[v].overtaken \subseteq marked(v).overtaken
             /\ v \in uncommitted /\ v < F => d \in marked(v).overtaken
  <2>1. log[v] \in LogType
    BY <1>2
  <2>2. CASE v \in uncommitted /\ v < F
    BY <2>1, <2>2 DEF LogType
  <2>3. CASE ~(v \in uncommitted /\ v < F)
    BY <2>1, <2>3
  <2> QED BY <2>2, <2>3
<1>9. log' \in Seq(LogType) /\ Len(log') = Len(log) /\ DOMAIN log' = 1 .. Len(log)
      /\ \A v \in DOMAIN log : log'[v] = marked(v)
  <2> HIDE DEF marked
  <2>1. log' \in [1 .. Len(log) -> LogType]
    BY <1>1, <1>2, <1>8
  <2> QED BY <1>1, <1>2, <2>1, FunctionIsSequence
<1>10. LogGrows
  BY <1>2, <1>8, <1>9 DEF LogGrows
<1>11. ASSUME NEW w \in Writers, NEW m \in Writes(w), stmt[w].answer[m].row.version < F
       PROVE  d \in log'[stmt[w].answer[m].row.version].overtaken
  <2>1. stmt[w].answer[m].row.version \in uncommitted
    BY DEF uncommitted
  <2>2. stmt[w].answer[m].row.version \in DOMAIN log
    BY <1>0 DEF Pending
  <2> QED BY <1>8, <1>9, <1>11, <2>1, <2>2
<1> QED BY <1>1, <1>3, <1>6, <1>7, <1>9, <1>10, <1>11, Zenon DEF F, ids

(* A page that is read says what the rows are; a row between the cursor and the *)
(* frontier is on it, and a number below the frontier that is taken and not     *)
(* committed is marked.                                                         *)
LEMMA HandlePullKeeps ==
  ASSUME IInv, NEW d \in Devices, HandlePull(d)
  PROVE  IInv'
<1>0. TypeOK /\ Numbered /\ Unborn /\ Pending /\ Resting /\ \A e \in Devices : PhoneInv(e)
  BY DEF IInv
<1>1. PICK page \in [Memories -> RowType] :
         LET F == Frontier(cursor[d], page)
         IN  /\ \A m \in Memories : page[m] = IF m \in Page(cursor[d]) THEN rows[m] ELSE NoRow
             /\ F \in Nat /\ cursor[d] <= F /\ F <= Len(log)
             /\ \A m \in Memories : page[m].version <= F
             /\ F = cursor[d] \/ \E m \in Memories : F = page[m].version
             /\ sync' \in [Devices -> SyncType]
             /\ sync'[d] = [sync[d] EXCEPT !.read = TRUE, !.page = page]
             /\ \A e \in Devices \ {d} : sync'[e] = sync[e]
             /\ log' \in Seq(LogType) /\ Len(log') = Len(log) /\ LogGrows
             /\ \A w \in Writers : \A m \in Writes(w) :
                  stmt[w].answer[m].row.version < F
                  => d \in log'[stmt[w].answer[m].row.version].overtaken
             /\ sync[d].pc = "pull" /\ ~sync[d].read
             /\ rows' = rows /\ stmt' = stmt /\ entry' = entry /\ dirty' = dirty /\ cursor' = cursor
             /\ UNCHANGED budget
  BY HandlePullShape, Zenon
<1> DEFINE F == Frontier(cursor[d], page)
<1>2. /\ \A m \in Memories : page[m] = IF m \in Page(cursor[d]) THEN rows[m] ELSE NoRow
      /\ F \in Nat /\ cursor[d] <= F /\ F <= Len(log)
      /\ \A m \in Memories : page[m].version <= F
      /\ F = cursor[d] \/ \E m \in Memories : F = page[m].version
      /\ sync' \in [Devices -> SyncType]
      /\ sync'[d] = [sync[d] EXCEPT !.read = TRUE, !.page = page]
      /\ \A e \in Devices \ {d} : sync'[e] = sync[e]
      /\ log' \in Seq(LogType) /\ Len(log') = Len(log) /\ LogGrows
      /\ \A w \in Writers : \A m \in Writes(w) :
           stmt[w].answer[m].row.version < F
           => d \in log'[stmt[w].answer[m].row.version].overtaken
      /\ sync[d].pc = "pull" /\ ~sync[d].read
      /\ rows' = rows /\ stmt' = stmt /\ entry' = entry /\ dirty' = dirty /\ cursor' = cursor
      /\ born' = born /\ edits' = edits /\ troubles' = troubles
  BY <1>1 DEF budget
<1>3. /\ Len(log) \in Nat /\ DOMAIN log = 1 .. Len(log) /\ cursor[d] \in Nat
      /\ \A m \in Memories : rows[m].version \in Nat /\ page[m].version \in Nat
      /\ rows \in [Memories -> RowType] /\ sync[d] \in SyncType /\ stmt \in [Writers -> StmtType]
  BY <1>0, RowsNumbered, Typed DEF RowType
<1>4. /\ sync'[d].read = TRUE /\ sync'[d].page = page /\ sync'[d].pc = sync[d].pc
      /\ sync'[d].sent = sync[d].sent /\ sync'[d].dead = sync[d].dead
  BY <1>2, <1>3 DEF SyncType
<1>5. Reach(d)' = F /\ Reach(d) = cursor[d] /\ \A e \in Devices \ {d} : Reach(e)' = Reach(e)
  BY <1>2, <1>4 DEF Reach
<1> HIDE DEF F
<1>6. TypeOK'
  BY <1>0, <1>2, Typed DEF TypeOK, LogType
<1>7. \A e \in Devices : /\ Reach(e) \in Nat /\ cursor[e] \in Nat /\ cursor[e] <= Reach(e)
                         /\ Reach(e) <= Len(log)
  BY <1>0, ReachTyped
<1>8. Numbered'
  <2>1. \A m \in Memories : page[m].version <= Len(log)
    BY <1>2, <1>3
  <2>2. \A e \in Devices : Reach(e)' \in Nat /\ cursor'[e] <= Reach(e)' /\ Reach(e)' <= Len(log')
    <3> SUFFICES ASSUME NEW e \in Devices
                 PROVE  Reach(e)' \in Nat /\ cursor'[e] <= Reach(e)' /\ Reach(e)' <= Len(log')
      OBVIOUS
    <3>1. CASE e = d
      BY <1>2, <1>5, <3>1
    <3>2. CASE e # d
      <4>1. Reach(e)' = Reach(e) /\ cursor'[e] = cursor[e]
        BY <1>2, <1>5, <3>2
      <4> QED BY <1>2, <1>7, <4>1
    <3> QED BY <3>1, <3>2
  <2>3. \A e \in Devices, m \in Memories : sync'[e].page[m].version <= Len(log')
    <3>1. \A m \in Memories : sync'[d].page[m].version <= Len(log')
      BY <1>2, <1>4, <2>1
    <3>2. \A e \in Devices \ {d}, m \in Memories : sync'[e].page[m].version <= Len(log')
      BY <1>0, <1>2 DEF Numbered
    <3> QED BY <3>1, <3>2
  <2> QED BY <1>0, <1>2, <2>2, <2>3 DEF Numbered
<1>9. Unborn'
  <2>1. \A m \in Memories : page[m].version # 0 => m \in born
    BY <1>0, <1>2, Blanks DEF Unborn
  <2>2. /\ dirty'[d] \subseteq born /\ sync'[d].dead \subseteq born
        /\ \A m \in Memories : entry'[d][m].held \/ sync'[d].sent[m].held
                                 \/ sync'[d].page[m].version # 0 => m \in born
    BY <1>0, <1>2, <1>4, <2>1 DEF Unborn
  <2>3. \A e \in Devices \ {d} :
          /\ dirty'[e] \subseteq born /\ sync'[e].dead \subseteq born
          /\ \A m \in Memories : entry'[e][m].held \/ sync'[e].sent[m].held
                                   \/ sync'[e].page[m].version # 0 => m \in born
    BY <1>0, <1>2 DEF Unborn
  <2>4. /\ \A m \in Memories : rows'[m].version # 0 => m \in born
        /\ \A w \in Writers, m \in Memories :
             stmt'[w].items[m].held \/ stmt'[w].answer[m].kind = "applied" => m \in born
    BY <1>0, <1>2 DEF Unborn
  <2> QED BY <1>2, <2>2, <2>3, <2>4 DEF Unborn
<1>10. Resting'
  BY <1>0, <1>2 DEF Resting
<1>11. Pending'
  <2> SUFFICES ASSUME NEW w \in Writers, NEW m \in Writes(w)'
               PROVE  /\ stmt'[w].answer[m].row.version \in DOMAIN log'
                      /\ log'[stmt'[w].answer[m].row.version].memory = m
                      /\ \A n \in Memories : rows'[n].version # stmt'[w].answer[m].row.version
                      /\ \A u \in Writers \ {w} : \A n \in Writes(u)' :
                           stmt'[u].answer[n].row.version # stmt'[w].answer[m].row.version
                      /\ \A e \in Devices : \/ stmt'[w].answer[m].row.version > Reach(e)'
                                            \/ e \in log'[stmt'[w].answer[m].row.version].overtaken
    BY DEF Pending
  <2> DEFINE v == stmt[w].answer[m].row.version
  <2>1. m \in Writes(w) /\ m \in Memories /\ stmt'[w].answer[m].row.version = v
        /\ \A u \in Writers : Writes(u)' = Writes(u)
    BY <1>2 DEF Writes
  <2>2. /\ v \in DOMAIN log /\ log[v].memory = m
        /\ \A n \in Memories : rows[n].version # v
        /\ \A u \in Writers \ {w} : \A n \in Writes(u) : stmt[u].answer[n].row.version # v
        /\ \A e \in Devices : v > Reach(e) \/ e \in log[v].overtaken
        /\ v < F => d \in log'[v].overtaken
    BY <1>0, <1>2, <2>1, Zenon DEF Pending
  <2> HIDE DEF v
  <2>3. /\ v \in DOMAIN log' /\ log'[v].memory = m
        /\ \A n \in Memories : rows'[n].version # v
        /\ \A u \in Writers \ {w} : \A n \in Writes(u)' : stmt'[u].answer[n].row.version # v
    BY <1>2, <2>1, <2>2 DEF LogGrows
  <2>4. v \in Nat /\ v # 0 /\ log[v].overtaken \subseteq log'[v].overtaken
    BY <1>2, <1>3, <2>2 DEF LogGrows
  <2>5. ASSUME NEW e \in Devices PROVE v > Reach(e)' \/ e \in log'[v].overtaken
    <3>1. CASE e # d
      BY <1>5, <2>2, <2>4, <3>1
    <3>2. CASE e = d
      <4>1. CASE v < F
        BY <2>2, <3>2, <4>1
      <4>2. CASE v > F
        BY <1>5, <3>2, <4>2
      <4>3. CASE v = F
        <5>1. F = cursor[d]
          <6>1. ASSUME NEW n \in Memories, F = page[n].version PROVE FALSE
            <7>1. page[n] = rows[n] \/ page[n].version = 0
              BY <1>2, Blanks
            <7> QED BY <2>2, <2>4, <4>3, <6>1, <7>1
          <6> QED BY <1>2, <6>1
        <5>2. v = Reach(d)
          BY <1>5, <4>3, <5>1
        <5>3. ~(v > Reach(d))
          BY <1>7, <5>2
        <5> QED BY <2>2, <2>4, <3>2, <5>3
      <4> QED BY <1>2, <2>4, <4>1, <4>2, <4>3
    <3> QED BY <3>1, <3>2
  <2> QED BY <2>1, <2>3, <2>5
<1>12. ASSUME NEW e \in Devices \ {d} PROVE PhoneInv(e)'
  BY <1>0, <1>2, PhoneKept
<1>13. PhoneInv(d)'
  <2>1. Pushing(d) /\ Answering(d) /\ Reading(d) /\ \A m \in Memories : View(d, m)
    BY <1>0 DEF PhoneInv
  <2>2. Pushing(d)'
    BY <1>2, <1>4, <2>1 DEF Pushing
  <2>3. Answering(d)'
    BY <1>2, <2>1 DEF Answering, Pushing
  <2>4. Reading(d)'
    <3>1. ASSUME NEW m \in Memories
          PROVE  \/ page[m] = rows[m] \/ rows[m].version > F
                 \/ page[m].version = 0 /\ rows[m].version <= cursor[d]
      <4>1. CASE m \in Page(cursor[d])
        BY <1>2, <4>1
      <4>2. CASE m \notin Page(cursor[d])
        <5>1. page[m].version = 0
          BY <1>2, <4>2, Blanks
        <5>2. ASSUME rows[m].version > cursor[d], rows[m].version <= F PROVE FALSE
          <6>1. PICK n \in Memories : F = page[n].version
            BY <1>2, <1>3, <5>2
          <6>2. page[n].version # 0
            BY <1>3, <5>2, <6>1
          <6>3. n \in Page(cursor[d]) /\ page[n] = rows[n]
            BY <1>2, <6>2, Blanks
          <6>4. m \in Page(cursor[d])
            BY <1>3, <5>2, <6>1, <6>3, PageFacts
          <6> QED BY <4>2, <6>4
        <5> QED BY <1>2, <1>3, <5>1, <5>2
      <4> QED BY <4>1, <4>2
    <3> QED BY <1>2, <1>4, <1>5, <3>1 DEF Reading
  <2>5. ASSUME NEW m \in Memories PROVE View(d, m)'
    <3>1. Fresh(d, m) => Fresh(d, m)'
      BY <1>0, <1>2, FreshKept
    <3> QED BY <1>2, <2>1, <3>1 DEF View
  <2> QED BY <2>2, <2>3, <2>4, <2>5 DEF PhoneInv
<1> QED BY <1>6, <1>8, <1>9, <1>10, <1>11, <1>12, <1>13 DEF IInv

(* What a phone makes of a page shows the rows the page has, and leaves the others. *)
LEMMA PageTaken ==
  ASSUME IInv, NEW d \in Devices, sync[d].read, NEW m \in Memories, NEW copy,
         copy = Merged(entry[d][m], sync[d].page[m], m \in dirty[d])
  PROVE  /\ copy \in CopyType /\ (copy.held => m \in born)
         /\ \/ rows[m].version = 0
            \/ rows[m].version > Reach(d)
            \/ rows[m].version # 0 /\ d \in log[rows[m].version].overtaken
            \/ rows[m].deleted /\ ~copy.held
            \/ /\ ~rows[m].deleted /\ copy.held /\ copy.version = rows[m].version
               /\ m \in dirty[d] \/ copy.text = rows[m].text
<1> DEFINE old == entry[d][m]
           row == sync[d].page[m]
<1>0. TypeOK /\ Numbered /\ Unborn /\ Reading(d) /\ View(d, m)
  BY DEF IInv, PhoneInv
<1>1. sync[d] \in SyncType /\ old \in CopyType /\ (m \in dirty[d]) \in BOOLEAN
  BY <1>0, Typed
<1>2. row \in RowType /\ row.version \in Nat /\ rows[m].version \in Nat /\ cursor[d] \in Nat
  BY <1>0, <1>1, RowsNumbered DEF SyncType, RowType
<1>3. copy \in CopyType
  BY <1>1, <1>2, MergedTyped
<1>4. \/ row = rows[m]
      \/ rows[m].version > Reach(d)
      \/ rows[m].version # 0 /\ d \in log[rows[m].version].overtaken
      \/ row.version = 0 /\ rows[m].version <= cursor[d]
  BY <1>0 DEF Reading
<1>5. old.held \/ row.version # 0 => m \in born
  BY <1>0 DEF Unborn
<1>6. copy = Merged(old, row, m \in dirty[d])
  OBVIOUS
<1>7. row.version = 0 =>
        \/ rows[m].version = 0
        \/ rows[m].version > cursor[d]
        \/ rows[m].version # 0 /\ d \in log[rows[m].version].overtaken
        \/ rows[m].deleted /\ ~old.held
        \/ /\ ~rows[m].deleted /\ old.held /\ old.version = rows[m].version
           /\ m \in dirty[d] \/ old.text = rows[m].text
  BY <1>0 DEF View, Fresh
<1> HIDE DEF old, row
<1>8. \/ row.version = 0 /\ copy = old
      \/ row.version # 0 /\ row.deleted /\ copy = NoCopy
      \/ row.version # 0 /\ ~row.deleted /\ m \in dirty[d] /\ old.held
         /\ copy = [old EXCEPT !.version = row.version]
      \/ row.version # 0 /\ ~row.deleted /\ copy = CopyOf(row)
  BY <1>6 DEF Merged
<1>9. \/ row.version = 0 /\ copy = old
      \/ row.version # 0 /\ row.deleted /\ ~copy.held
      \/ /\ row.version # 0 /\ ~row.deleted /\ copy.held /\ copy.version = row.version
         /\ m \in dirty[d] \/ copy.text = row.text
  BY <1>1, <1>8, Blanks DEF CopyType, CopyOf
<1>10. copy.held => m \in born
  BY <1>5, <1>9
<1> QED BY <1>2, <1>3, <1>4, <1>7, <1>9, <1>10

(* The phone that takes a page over asks as far as it has read. *)
LEMMA PullAnsweredKeeps ==
  ASSUME IInv, NEW d \in Devices, PullAnswered(d)
  PROVE  IInv'
<1> DEFINE page == sync[d].page
           copies == [m \in Memories |-> Merged(entry[d][m], page[m], m \in dirty[d])]
           F == Frontier(cursor[d], page)
           after == IF Cardinality(Delivered(page)) >= PageSize THEN [Idle EXCEPT !.pc = "pull"] ELSE Idle
<1>0. TypeOK /\ Numbered /\ Unborn /\ Pending /\ Resting /\ \A e \in Devices : PhoneInv(e)
  BY DEF IInv
<1>1. /\ sync[d].read
      /\ entry' = [entry EXCEPT ![d] = copies] /\ cursor' = [cursor EXCEPT ![d] = F]
      /\ sync' = [sync EXCEPT ![d] = after]
      /\ UNCHANGED <<server, dirty, budget>>
  BY DEF PullAnswered
<1>2. /\ rows' = rows /\ log' = log /\ stmt' = stmt /\ dirty' = dirty
      /\ born' = born /\ edits' = edits /\ troubles' = troubles
  BY <1>1 DEF server, budget
<1>3. F = Reach(d)
  BY <1>1 DEF Reach
<1>4. \A e \in Devices : /\ Reach(e) \in Nat /\ cursor[e] \in Nat /\ cursor[e] <= Reach(e)
                         /\ Reach(e) <= Len(log)
  BY <1>0, ReachTyped
<1>5. \A m \in Memories : copies[m] = Merged(entry[d][m], sync[d].page[m], m \in dirty[d])
  OBVIOUS
<1>6. /\ after \in SyncType /\ after.pc \in {"idle", "pull"} /\ ~after.read /\ after.page = NoRows
      /\ after.dead = {} /\ after.sent = NoCopies
  <2>1. [Idle EXCEPT !.pc = "pull"] \in SyncType
    BY Blanks DEF SyncType
  <2> QED BY <2>1, Blanks DEF SyncType
<1> HIDE DEF F, after, page
<1>7. ASSUME NEW m \in Memories
      PROVE  /\ copies[m] \in CopyType /\ (copies[m].held => m \in born)
             /\ \/ rows[m].version = 0
                \/ rows[m].version > Reach(d)
                \/ rows[m].version # 0 /\ d \in log[rows[m].version].overtaken
                \/ rows[m].deleted /\ ~copies[m].held
                \/ /\ ~rows[m].deleted /\ copies[m].held /\ copies[m].version = rows[m].version
                   /\ m \in dirty[d] \/ copies[m].text = rows[m].text
  <2> HIDE DEF copies
  <2> QED BY <1>1, <1>5, PageTaken
<1>8. copies \in [Memories -> CopyType]
  <2>1. \A m \in Memories : copies[m] \in CopyType
    <3> HIDE DEF copies
    <3> QED BY <1>7
  <2> QED BY <2>1
<1> HIDE DEF copies
<1>9. /\ entry' \in [Devices -> [Memories -> CopyType]] /\ entry'[d] = copies
      /\ cursor' \in [Devices -> Nat] /\ cursor'[d] = F
      /\ sync' \in [Devices -> SyncType] /\ sync'[d] = after
      /\ \A e \in Devices \ {d} : entry'[e] = entry[e] /\ cursor'[e] = cursor[e] /\ sync'[e] = sync[e]
  <2>1. /\ entry \in [Devices -> [Memories -> CopyType]] /\ cursor \in [Devices -> Nat]
        /\ sync \in [Devices -> SyncType] /\ F \in Nat
    BY <1>0, <1>3, <1>4, Typed
  <2>2. /\ entry' \in [Devices -> [Memories -> CopyType]] /\ entry'[d] = copies
        /\ cursor' \in [Devices -> Nat] /\ cursor'[d] = F
        /\ sync' \in [Devices -> SyncType] /\ sync'[d] = after
    BY <1>1, <1>6, <1>8, <2>1
  <2>3. \A e \in Devices \ {d} : entry'[e] = entry[e] /\ cursor'[e] = cursor[e] /\ sync'[e] = sync[e]
    BY <1>1, <2>1
  <2> QED BY <2>2, <2>3
<1>10. TypeOK'
  BY <1>0, <1>2, <1>9, Typed DEF TypeOK
<1>11. \A e \in Devices : Reach(e)' = Reach(e)
  <2>1. Reach(d)' = F
    BY <1>6, <1>9 DEF Reach
  <2>2. \A e \in Devices \ {d} : Reach(e)' = Reach(e)
    BY <1>9 DEF Reach
  <2> QED BY <1>3, <2>1, <2>2
<1>12. \A m \in Memories : after.page[m].version = 0 /\ ~after.sent[m].held /\ 0 <= Len(log)
  BY <1>0, <1>6, RowsNumbered, Blanks DEF NoRows, NoCopies
<1>13. Numbered'
  <2>1. \A e \in Devices, m \in Memories : sync'[e].page[m].version <= Len(log)
    <3>1. \A m \in Memories : sync'[d].page[m].version <= Len(log)
      BY <1>9, <1>12
    <3>2. \A e \in Devices \ {d}, m \in Memories : sync'[e].page[m].version <= Len(log)
      BY <1>0, <1>9 DEF Numbered
    <3> QED BY <3>1, <3>2
  <2>2. ASSUME NEW e \in Devices
        PROVE  Reach(e)' \in Nat /\ cursor'[e] <= Reach(e)' /\ Reach(e)' <= Len(log)
    <3>1. cursor'[e] = cursor[e] \/ cursor'[e] = Reach(e)
      BY <1>3, <1>9
    <3>2. Reach(e) \in Nat /\ cursor[e] <= Reach(e) /\ Reach(e) <= Len(log)
      BY <1>4
    <3> QED BY <1>11, <3>1, <3>2
  <2> QED BY <1>0, <1>2, <2>1, <2>2 DEF Numbered
<1>14. Unborn'
  <2>1. /\ dirty'[d] \subseteq born /\ sync'[d].dead \subseteq born
        /\ \A m \in Memories : entry'[d][m].held \/ sync'[d].sent[m].held
                                 \/ sync'[d].page[m].version # 0 => m \in born
    BY <1>0, <1>2, <1>6, <1>7, <1>9, <1>12 DEF Unborn
  <2>2. \A e \in Devices \ {d} :
          /\ dirty'[e] \subseteq born /\ sync'[e].dead \subseteq born
          /\ \A m \in Memories : entry'[e][m].held \/ sync'[e].sent[m].held
                                   \/ sync'[e].page[m].version # 0 => m \in born
    BY <1>0, <1>2, <1>9 DEF Unborn
  <2>3. /\ \A m \in Memories : rows'[m].version # 0 => m \in born
        /\ \A w \in Writers, m \in Memories :
             stmt'[w].items[m].held \/ stmt'[w].answer[m].kind = "applied" => m \in born
    BY <1>0, <1>2 DEF Unborn
  <2> QED BY <1>2, <2>1, <2>2, <2>3 DEF Unborn
<1>15. LogGrows
  BY <1>2, SameLogGrows
<1>16. Pending' /\ Resting'
  <2>1. \A u \in Writers : \A m \in Writes(u)' :
          m \in Writes(u) /\ stmt'[u].answer[m] = stmt[u].answer[m]
    BY <1>2 DEF Writes
  <2>2. \A e \in Devices : Reach(e) \in Nat /\ Reach(e)' \in Nat /\ Reach(e)' <= Reach(e)
    BY <1>4, <1>11
  <2>3. Pending'
    BY <1>0, <1>2, <1>15, <2>1, <2>2, PendingKept
  <2> QED BY <1>0, <1>2, <2>3 DEF Resting
<1>17. ASSUME NEW e \in Devices \ {d} PROVE PhoneInv(e)'
  BY <1>0, <1>2, <1>9, <1>15, PhoneKept
<1>18. PhoneInv(d)'
  <2>1. Pushing(d)
    BY <1>0 DEF PhoneInv
  <2>2. stmt'[<<d, "now">>].stage = "none"
    <3>1. sync[d].pc = "pull"
      BY <1>1, <2>1 DEF Pushing
    <3> QED BY <1>2, <2>1, <3>1 DEF Pushing
  <2>3. Pushing(d)' /\ Answering(d)' /\ Reading(d)'
    BY <1>6, <1>9, <2>2 DEF Pushing, Answering, Reading
  <2>4. ASSUME NEW m \in Memories PROVE View(d, m)'
    <3>1. entry'[d][m] = copies[m] /\ cursor'[d] = Reach(d)
      BY <1>3, <1>9
    <3> QED BY <1>2, <1>7, <3>1 DEF View, Fresh
  <2> QED BY <2>3, <2>4 DEF PhoneInv
<1> QED BY <1>10, <1>13, <1>14, <1>16, <1>17, <1>18 DEF IInv

-------------------------------------------------------------------------------
(* The theorems. *)

(* Nothing is written and every phone is empty. *)
LEMMA Initial == Init => IInv
<1> SUFFICES ASSUME Init PROVE IInv
  OBVIOUS
<1>1. /\ rows = NoRows /\ log = <<>> /\ stmt = [w \in Writers |-> Quiet]
      /\ entry = [d \in Devices |-> NoCopies] /\ dirty = [d \in Devices |-> {}]
      /\ cursor = [d \in Devices |-> 0] /\ sync = [d \in Devices |-> Idle]
      /\ born = {} /\ edits = 0 /\ troubles = 0
  BY DEF Init
<1>2. TypeOK
  <2>1. log \in Seq(LogType) /\ edits \in 0 .. MaxEdits /\ troubles \in 0 .. MaxTroubles
    BY <1>1, SyncAssumption
  <2> QED BY <1>1, <2>1, Blanks, Typed
<1>3. /\ \A m \in Memories : rows[m].version = 0 /\ ~NoCopies[m].held
      /\ \A w \in Writers : stmt[w] = Quiet
      /\ \A d \in Devices : /\ entry[d] = NoCopies /\ dirty[d] = {} /\ cursor[d] = 0
                            /\ sync[d] = Idle /\ Reach(d) = 0
      /\ Len(log) = 0
  BY <1>1, Blanks DEF NoRows, NoCopies, Reach
<1>4. \A m \in Memories : /\ Quiet.seen[m].version = 0 /\ Quiet.answer[m].row.version = 0
                          /\ ~Quiet.items[m].held /\ Quiet.answer[m].kind # "applied"
                          /\ Idle.page[m].version = 0 /\ ~Idle.sent[m].held
  BY Blanks DEF NoRows, NoCopies
<1>5. Numbered /\ Unborn /\ Resting
  BY <1>3, <1>4, Blanks DEF Numbered, Unborn, Resting
<1>6. Pending
  BY <1>3, Blanks DEF Pending, Writes
<1>7. ASSUME NEW d \in Devices PROVE PhoneInv(d)
  <2>1. stmt[<<d, "now">>] = Quiet /\ sync[d] = Idle
    BY <1>3, WriterKinds
  <2> QED BY <1>3, <2>1, Blanks DEF PhoneInv, Pushing, Answering, Reading, View
<1> QED BY <1>2, <1>5, <1>6, <1>7 DEF IInv

(* A step that changes nothing. *)
LEMMA Stutters == IInv /\ UNCHANGED vars => IInv'
<1> SUFFICES ASSUME IInv, UNCHANGED vars PROVE IInv'
  OBVIOUS
<1>1. TypeOK /\ Numbered /\ Unborn /\ Pending /\ Resting /\ \A e \in Devices : PhoneInv(e)
  BY DEF IInv
<1>2. /\ rows' = rows /\ log' = log /\ stmt' = stmt /\ entry' = entry /\ dirty' = dirty
      /\ cursor' = cursor /\ sync' = sync /\ born' = born /\ edits' = edits /\ troubles' = troubles
  BY DEF vars
<1>3. TypeOK' /\ Unborn' /\ Resting'
  BY <1>1, <1>2, Typed DEF TypeOK, Unborn, Resting
<1>4. \A e \in Devices : Reach(e)' = Reach(e)
  BY <1>2 DEF Reach
<1>5. Numbered' /\ Pending'
  BY <1>1, <1>2, <1>4 DEF Numbered, Pending, Writes
<1>6. \A e \in Devices : PhoneInv(e)'
  BY <1>1, <1>2, SameLogGrows, PhoneKept
<1> QED BY <1>3, <1>5, <1>6 DEF IInv

(* Every step of the system keeps the invariant. *)
LEMMA Inductive == IInv /\ [Next]_vars => IInv'
<1> SUFFICES ASSUME IInv, [Next]_vars PROVE IInv'
  OBVIOUS
<1>1. ASSUME NEW w \in Writers, ServerStep(w) PROVE IInv'
  BY <1>1, HandlePushKeeps, HandleRefusedKeeps, WakeKeeps, CommitKeeps DEF ServerStep
<1>2. ASSUME NEW d \in Devices, PhoneStep(d) PROVE IInv'
  BY <1>2, StartRoundKeeps, PushAnsweredKeeps, HandlePullKeeps, PullAnsweredKeeps, PushLostKeeps,
     PushOutlivedKeeps, PullLostKeeps DEF PhoneStep
<1>3. ASSUME NEW m \in Memories, UserStep(m) PROVE IInv'
  BY <1>3, ChangeKeeps, WebWriteKeeps DEF UserStep
<1> QED BY <1>1, <1>2, <1>3, Stutters DEF Next

(* What a phone shows of a row is the row, or the row is fresh, in every state *)
(* the system reaches (PhoneInv), with what that rests on.                     *)
THEOREM Invariance == Spec => []IInv
BY Initial, Inductive, PTL DEF Spec

(* Rows, statements, copies, dirty ids, cursors and rounds are what they are *)
(* declared to be (TypeOK); a tombstone has no text.                         *)
THEOREM TypeCorrect == Spec => []TypeOK
<1>1. IInv => TypeOK
  BY DEF IInv
<1> QED BY <1>1, Invariance, PTL

(* A clean copy of a row that is not fresh shows it. *)
LEMMA ViewDelivers == IInv => DeliveredUnlessOvertaken
<1> SUFFICES ASSUME IInv, NEW d \in Devices, NEW m \in BelowTheCursor(d)
             PROVE  IsDelivered(d, m) \/ d \in log[rows[m].version].overtaken
  BY DEF DeliveredUnlessOvertaken
<1>1. /\ m \in Memories /\ m \notin dirty[d] /\ rows[m].version # 0 /\ rows[m].version <= cursor[d]
      /\ View(d, m) /\ rows[m].version \in Nat /\ cursor[d] \in Nat
  BY RowsNumbered DEF BelowTheCursor, IInv, PhoneInv
<1> QED BY <1>1 DEF View, Fresh, IsDelivered

(* Nothing but an overtaken number is missed (DeliveredUnlessOvertaken): a row *)
(* that the cursor of a phone has passed, and that the phone has not changed,  *)
(* is on the phone as it is at the server.                                     *)
THEOREM DeliveredCorrect == Spec => []DeliveredUnlessOvertaken
BY ViewDelivers, Invariance, PTL

(* A change leaves the dirty ids of a phone only with a copy that is not there, or *)
(* with the answer of a push, and then it was stored or turned down.                *)
LEMMA StartClears ==
  ASSUME IInv, NEW d \in Devices, StartRound(d), NEW e \in Devices, NEW m \in dirty[e] \ dirty'[e]
  PROVE  ~entry[e][m].held
BY StartShape

(* What an answer clears was stored or turned down: an applied answer settles a *)
(* copy only when it still reads as it was sent.                                *)
LEMMA AnswerClears ==
  ASSUME IInv, NEW d \in Devices, PushAnswered(d), NEW e \in Devices, NEW m \in dirty[e] \ dirty'[e],
         entry[e][m].held
  PROVE  \/ WasStored(m, entry[e][m])
         \/ stmt[<<e, "now">>].answer[m].kind \in {"conflict", "rejected"}
<1> DEFINE now == <<d, "now">>
           answer == stmt[now].answer[m]
           sent == sync[d].sent[m]
           latest == entry[d][m]
           done == {n \in Memories : After(stmt[now].answer[n], sync[d].sent[n], entry[d][n]).settled}
<1>0. TypeOK /\ Pushing(d) /\ Answering(d)
  BY DEF IInv, PhoneInv
<1>1. /\ sync[d].pc = "push" /\ stmt[now].stage = "done"
      /\ dirty' = [dirty EXCEPT ![d] = @ \ (sync[d].dead \cup done)]
  BY DEF PushAnswered
<1>2. dirty \in [Devices -> SUBSET Memories] /\ m \in Memories
  BY <1>0, Typed
<1>3. e = d /\ m \in sync[d].dead \cup done
  <2> HIDE DEF done
  <2> QED BY <1>1, <1>2
<1>4. m \notin sync[d].dead
  BY <1>0, <1>1, <1>3 DEF Pushing
<1>5. After(answer, sent, latest).settled
  BY <1>3, <1>4
<1>6. answer.kind \in {"none", "applied", "conflict", "rejected"}
  <2>1. stmt[now] \in StmtType
    BY <1>0, Typed, WriterKinds
  <2> QED BY <1>2, <2>1 DEF StmtType, Answers
<1>7. answer.kind = "applied" => WasStored(m, sent)
  BY <1>0, <1>1, <1>2 DEF Pushing, Answering
<1>8. latest.held
  BY <1>3
<1> HIDE DEF answer, sent, latest, now
<1>9. CASE answer.kind = "applied"
  <2>1. After(answer, sent, latest) = AfterApplied(sent, latest, answer.row)
    BY <1>9 DEF After
  <2>2. Matches(sent, latest)
    <3>1. PICK settled : settled = (~latest.held \/ Matches(sent, latest))
      OBVIOUS
    <3>2. PICK copy : After(answer, sent, latest) = [settled |-> settled, refetch |-> FALSE, copy |-> copy]
      BY <2>1, <3>1, Zenon DEF AfterApplied
    <3>3. After(answer, sent, latest).settled = settled
      BY <3>2, AfterFields
    <3> QED BY <1>5, <1>8, <3>1, <3>3, Zenon
  <2>3. WasStored(m, latest)
    BY <1>7, <1>9, <2>2 DEF WasStored, Matches
  <2> QED BY <1>3, <2>3 DEF latest
<1>10. CASE answer.kind = "none"
  <2>1. After(answer, sent, latest) = [settled |-> FALSE, refetch |-> FALSE, copy |-> latest]
    BY <1>10 DEF After
  <2> QED BY <1>5, <2>1
<1>11. CASE answer.kind \in {"conflict", "rejected"}
  BY <1>3, <1>11 DEF answer, now
<1> QED BY <1>6, <1>9, <1>10, <1>11

(* So does every step, as no other clears a dirty id of a copy that is there. *)
LEMMA ClearedWhenStored ==
  ASSUME IInv, [Next]_vars, NEW e \in Devices, NEW m \in dirty[e] \ dirty'[e], entry[e][m].held
  PROVE  \/ WasStored(m, entry[e][m])
         \/ stmt[<<e, "now">>].answer[m].kind \in {"conflict", "rejected"}
<1>1. dirty' # dirty
  OBVIOUS
<1>2. ASSUME NEW w \in Writers, ServerStep(w) PROVE FALSE
  BY <1>1, <1>2 DEF ServerStep, HandlePush, HandleRefused, Wake, Commit, phone
<1>3. CASE \E n \in Memories : UserStep(n)
  <2>1. PICK n \in Memories : UserStep(n)
    BY <1>3
  <2>2. CASE \E deleted \in BOOLEAN : WebWrite(n, deleted)
    BY <1>1, <2>2 DEF WebWrite, phone
  <2>3. ASSUME NEW d \in Devices, AddMemory(d, n) \/ UpdateMemory(d, n) \/ DeleteMemory(d, n)
        PROVE  FALSE
    <3>1. dirty'[d] = dirty[d] \cup {n} /\ \A x \in Devices \ {d} : dirty'[x] = dirty[x]
      BY <2>3, ChangeShape DEF IInv
    <3> QED BY <3>1
  <2> QED BY <2>1, <2>2, <2>3 DEF UserStep
<1>4. ASSUME NEW d \in Devices, PhoneStep(d)
      PROVE  \/ WasStored(m, entry[e][m])
             \/ stmt[<<e, "now">>].answer[m].kind \in {"conflict", "rejected"}
  <2>1. CASE StartRound(d)
    BY <2>1, StartClears
  <2>2. CASE PushAnswered(d)
    BY <2>2, AnswerClears
  <2>3. ~HandlePull(d) /\ ~PullAnswered(d) /\ ~PushLost(d) /\ ~PushOutlived(d) /\ ~PullLost(d)
    BY <1>1 DEF HandlePull, PullAnswered, PushLost, PushOutlived, PullLost
  <2> QED BY <1>4, <2>1, <2>2, <2>3 DEF PhoneStep
<1>5. ~UNCHANGED vars
  BY <1>1 DEF vars
<1> QED BY <1>2, <1>3, <1>4, <1>5 DEF Next

(* A change leaves the dirty ids only when it was stored or the server turned *)
(* the push down (StoredOrTurnedDown).                                        *)
THEOREM StoredCorrect == Spec => StoredOrTurnedDown
<1>1. IInv /\ [Next]_vars =>
        [\A d \in Devices : \A m \in dirty[d] \ dirty'[d] :
            entry[d][m].held =>
                \/ WasStored(m, entry[d][m])
                \/ stmt[<<d, "now">>].answer[m].kind \in {"conflict", "rejected"}]_vars
  BY ClearedWhenStored
<1> QED BY <1>1, Invariance, PTL DEF Spec, StoredOrTurnedDown

===============================================================================
