--------------------------- MODULE HistoryProofs ---------------------------
(***************************************************************************)
(* That an id of module History stands for one message, for any sessions,  *)
(* ranks and limits.                                                       *)
(*                                                                         *)
(* A restart hands out again the ids of the newest messages that were      *)
(* deleted, so no id is unique for ever.  What saves the replies is that a *)
(* reply is newer than what it answers: as long as it is kept, the next id *)
(* stays above both.  What saves the handlers is that a restart ends them  *)
(* all, and that nothing else moves the next id back.                      *)
(***************************************************************************)
EXTENDS History, FiniteSetTheorems, SequenceTheorems, TLAPS

\* What is known of a sequence of records and the next id.
Good(s, n) ==
    /\ \A i, j \in DOMAIN s : i < j => s[i].id < s[j].id
    /\ \A i \in DOMAIN s : s[i].id < n
    /\ \A k \in DOMAIN s : s[k].reply # None => s[k].reply < s[k].id
    /\ \A k, i \in DOMAIN s :
          s[k].reply # None /\ s[i].id = s[k].reply => s[i].msg = s[k].target

\* What an operation under way knows of them.
Named(o, s, n) ==
    o # None => /\ o.id < n
                /\ \A i \in DOMAIN s : s[i].id = o.id => s[i].msg = o.msg

IInv ==
    /\ TypeOK
    /\ Good(records, next)
    /\ \A x \in Sessions : Named(op[x], records, next)

\* t holds some of the records of s in the same order, changed at most in what
\* no id depends on.
Keeps(t, s) ==
    \E f \in [DOMAIN t -> DOMAIN s] :
        /\ \A i, j \in DOMAIN t : i < j => f[i] < f[j]
        /\ \A i \in DOMAIN t : /\ t[i].id = s[f[i]].id
                               /\ t[i].msg = s[f[i]].msg
                               /\ t[i].reply = s[f[i]].reply
                               /\ t[i].target = s[f[i]].target

-----------------------------------------------------------------------------
(* The sequences of records.                                               *)

\* The fields of the records of a sequence.
LEMMA Fields ==
    ASSUME NEW s \in Seq(Record), NEW i \in DOMAIN s
    PROVE  /\ s[i] \in Record
           /\ s[i].id \in Nat /\ s[i].msg \in Nat /\ s[i].reply \in Nat \cup {None}
<1>1. DOMAIN s = 1..Len(s)
  BY LenProperties
<1>2. s[i] \in Record
  BY <1>1, ElementOfSeq
<1> QED BY <1>2 DEF Record

\* What holds of the records holds of those that are left of them.
LEMMA KeepsGood ==
    ASSUME NEW s \in Seq(Record), NEW t \in Seq(Record), NEW n \in Nat,
           Good(s, n), Keeps(t, s)
    PROVE  /\ Good(t, n)
           /\ \A o \in Op \cup {None} : Named(o, s, n) => Named(o, t, n)
<1>1. PICK f \in [DOMAIN t -> DOMAIN s] :
        /\ \A i, j \in DOMAIN t : i < j => f[i] < f[j]
        /\ \A i \in DOMAIN t : /\ t[i].id = s[f[i]].id
                               /\ t[i].msg = s[f[i]].msg
                               /\ t[i].reply = s[f[i]].reply
                               /\ t[i].target = s[f[i]].target
  BY DEF Keeps
<1>2. \A i \in DOMAIN t : f[i] \in DOMAIN s
  BY <1>1
<1>3. Good(t, n)
  <2>1. \A i, j \in DOMAIN t : i < j => t[i].id < t[j].id
    BY <1>1, <1>2 DEF Good
  <2>2. \A i \in DOMAIN t : t[i].id < n
    BY <1>1, <1>2 DEF Good
  <2>3. \A k \in DOMAIN t : t[k].reply # None => t[k].reply < t[k].id
    BY <1>1, <1>2 DEF Good
  <2>4. \A k, i \in DOMAIN t :
            t[k].reply # None /\ t[i].id = t[k].reply => t[i].msg = t[k].target
    BY <1>1, <1>2 DEF Good
  <2> QED BY <2>1, <2>2, <2>3, <2>4 DEF Good
<1>4. \A o \in Op \cup {None} : Named(o, s, n) => Named(o, t, n)
  BY <1>1, <1>2 DEF Named
<1> QED BY <1>3, <1>4

\* A removal keeps the others.
LEMMA WithoutKeeps ==
    ASSUME NEW s \in Seq(Record), NEW k \in DOMAIN s
    PROVE  /\ Without(s, k) \in Seq(Record)
           /\ Len(Without(s, k)) = Len(s) - 1
           /\ Keeps(Without(s, k), s)
<1> DEFINE t == Without(s, k)
           f == [i \in DOMAIN t |-> IF i < k THEN i ELSE i + 1]
<1>1. Len(s) \in Nat /\ Len(s) >= 1 /\ DOMAIN s = 1..Len(s) /\ k \in 1..Len(s)
  BY LenProperties
<1>2. t = [i \in 1..Len(s) - 1 |-> s[IF i < k THEN i ELSE i + 1]]
  BY <1>1 DEF Without
<1>3. \A i \in 1..Len(s) - 1 : (IF i < k THEN i ELSE i + 1) \in 1..Len(s)
  BY <1>1
<1>4. \A i \in 1..Len(s) : s[i] \in Record
  BY ElementOfSeq
<1>5. t \in Seq(Record) /\ Len(t) = Len(s) - 1 /\ DOMAIN t = 1..Len(s) - 1
  <2>1. Len(s) - 1 \in Nat
    BY <1>1
  <2>2. t \in [1..Len(s) - 1 -> Record]
    BY <1>2, <1>3, <1>4
  <2>3. t \in Seq(Record)
    BY <2>1, <2>2, SeqDef
  <2> QED BY <2>1, <2>2, <2>3, LenProperties
<1>6. f \in [DOMAIN t -> DOMAIN s]
  BY <1>1, <1>3, <1>5
<1>7. \A i, j \in DOMAIN t : i < j => f[i] < f[j]
  BY <1>1, <1>5
<1>8. \A i \in DOMAIN t : t[i] = s[f[i]]
  BY <1>2, <1>5
<1> HIDE DEF t, f
<1>9. Keeps(t, s)
  BY <1>6, <1>7, <1>8 DEF Keeps
<1> QED BY <1>5, <1>9 DEF t

\* A trim keeps the newest, and no more than it should.
LEMMA NewestKeeps ==
    ASSUME NEW s \in Seq(Record), NEW n \in Nat
    PROVE  /\ Newest(s, n) \in Seq(Record)
           /\ Len(Newest(s, n)) <= n
           /\ Keeps(Newest(s, n), s)
<1>1. Len(s) \in Nat /\ DOMAIN s = 1..Len(s)
  BY LenProperties
<1>2. CASE Len(s) <= n
  <2>1. Newest(s, n) = s
    BY <1>2 DEF Newest
  <2>2. Keeps(s, s)
    <3> DEFINE f == [i \in DOMAIN s |-> i]
    <3>1. /\ f \in [DOMAIN s -> DOMAIN s]
          /\ \A i \in DOMAIN s : f[i] = i
      OBVIOUS
    <3> HIDE DEF f
    <3> QED BY <3>1, <1>1 DEF Keeps
  <2> QED BY <1>2, <2>1, <2>2
<1>3. CASE ~ (Len(s) <= n)
  <2> DEFINE t == SubSeq(s, Len(s) - n + 1, Len(s))
             f == [i \in DOMAIN t |-> i + (Len(s) - n)]
  <2>1. Newest(s, n) = t
    BY <1>3 DEF Newest
  <2>2. t \in Seq(Record) /\ Len(t) = n /\ DOMAIN t = 1..n
    BY <1>1, <1>3, SubSeqProperties
  <2>3. \A i \in DOMAIN t : t[i] = s[i + (Len(s) - n)]
    BY <1>1, <1>3, <2>2, SubSeqProperties
  <2>4. f \in [DOMAIN t -> DOMAIN s]
    BY <1>1, <1>3, <2>2
  <2>5. \A i, j \in DOMAIN t : i < j => f[i] < f[j]
    BY <1>1, <2>2
  <2>6. \A i \in DOMAIN t : t[i] = s[f[i]]
    BY <2>3
  <2> HIDE DEF t, f
  <2>7. Keeps(t, s)
    BY <2>4, <2>5, <2>6 DEF Keeps
  <2> QED BY <2>1, <2>2, <2>7
<1> QED BY <1>2, <1>3

\* A new record with the next id answers what the handler looked up.
LEMMA AppendGood ==
    ASSUME NEW s \in Seq(Record), NEW r \in Record, NEW n \in Nat, Good(s, n),
           r.id = n,
           r.reply # None => /\ r.reply < n
                             /\ \A i \in DOMAIN s : s[i].id = r.reply => s[i].msg = r.target
    PROVE  /\ Append(s, r) \in Seq(Record)
           /\ Good(Append(s, r), n + 1)
           /\ \A o \in Op \cup {None} : Named(o, s, n) => Named(o, Append(s, r), n + 1)
<1> DEFINE t == Append(s, r)
<1>1. /\ t \in Seq(Record)
      /\ Len(s) \in Nat /\ DOMAIN s = 1..Len(s)
      /\ DOMAIN t = 1..Len(s) + 1
      /\ \A i \in 1..Len(s) : t[i] = s[i]
      /\ t[Len(s) + 1] = r
  BY AppendProperties, LenProperties
<1>2. \A i \in DOMAIN t : i \in DOMAIN s \/ i = Len(s) + 1
  BY <1>1
<1>3. \A i \in DOMAIN s : t[i] = s[i] /\ i < Len(s) + 1 /\ i \in Nat
  BY <1>1
<1>4. \A i \in DOMAIN s : s[i] \in Record /\ s[i].id \in Nat /\ s[i].reply \in Nat \cup {None}
  BY Fields
<1>5. r.id \in Nat /\ r.reply \in Nat \cup {None}
  BY DEF Record
<1> HIDE DEF t
<1>6. Good(t, n + 1)
  <2>1. \A i, j \in DOMAIN t : i < j => t[i].id < t[j].id
    BY <1>1, <1>2, <1>3, <1>4 DEF Good
  <2>2. \A i \in DOMAIN t : t[i].id < n + 1
    BY <1>1, <1>2, <1>3, <1>4 DEF Good
  <2>3. \A k \in DOMAIN t : t[k].reply # None => t[k].reply < t[k].id
    BY <1>1, <1>2, <1>3 DEF Good
  <2>4. ASSUME NEW k \in DOMAIN t, NEW i \in DOMAIN t,
               t[k].reply # None, t[i].id = t[k].reply
        PROVE  t[i].msg = t[k].target
    <3>1. t[k].reply < n
      BY <2>4, <1>1, <1>2, <1>3, <1>4, <1>5, NoneAssumption DEF Good
    <3>2. i \in DOMAIN s
      BY <2>4, <3>1, <1>1, <1>2
    <3> QED BY <2>4, <3>2, <1>1, <1>2, <1>3 DEF Good
  <2> QED BY <2>1, <2>2, <2>3, <2>4 DEF Good
<1>7. ASSUME NEW o \in Op \cup {None}, Named(o, s, n)
      PROVE  Named(o, t, n + 1)
  <2> SUFFICES ASSUME o # None PROVE Named(o, t, n + 1)
    BY DEF Named
  <2>1. o.id \in Nat /\ o.id < n
    BY <1>7 DEF Named, Op
  <2> QED BY <1>7, <2>1, <1>1, <1>2, <1>3 DEF Named
<1> QED BY <1>1, <1>6, <1>7 DEF t

\* The id a restart continues with is above every id kept.
LEMMA ContinueGood ==
    ASSUME NEW s \in Seq(Record), NEW n \in Nat, Good(s, n)
    PROVE  continue(s) \in Nat /\ Good(s, continue(s))
<1>1. Len(s) \in Nat /\ DOMAIN s = 1..Len(s) /\ (s # <<>> => Len(s) >= 1)
  BY LenProperties, EmptySeq
<1>2. \A i \in DOMAIN s : s[i].id \in Nat
  BY Fields
<1>3. continue(s) \in Nat
  BY <1>1, <1>2 DEF continue
<1>4. \A i \in DOMAIN s : s[i].id < continue(s)
  BY <1>1, <1>2 DEF continue, Good
<1> QED BY <1>3, <1>4 DEF Good

-----------------------------------------------------------------------------
(* The inductive invariant.                                                *)

\* The empty history of the first start.
LEMMA InitIInv == Init => IInv
<1> SUFFICES ASSUME Init PROVE IInv
  OBVIOUS
<1>1. TypeOK
  <2>1. Len(records) = 0 /\ records \in Seq(Record)
    BY DEF Init
  <2>2. \E limit \in Limits : Len(records) <= limit
    <3>1. PICK limit : limit \in Limits
      BY LimitsAssumption
    <3>2. limit \in Nat
      BY <3>1, LimitsAssumption
    <3> QED BY <2>1, <3>1, <3>2
  <2> QED BY <2>1, <2>2 DEF Init, TypeOK
<1>2. DOMAIN records = {}
  BY DEF Init
<1>3. Good(records, next)
  BY <1>2 DEF Good
<1>4. \A x \in Sessions : Named(op[x], records, next)
  BY DEF Named, Init
<1> QED BY <1>1, <1>3, <1>4 DEF IInv

\* A step that only takes records away or marks them, and leaves the handlers
\* what they know, keeps the invariant.
LEMMA KeepsIInv ==
    ASSUME IInv, next' = next, said' = said,
           records' \in Seq(Record), Len(records') <= Len(records), Keeps(records', records),
           op' \in [Sessions -> Op \cup {None}],
           \A x \in Sessions : Named(op'[x], records, next)
    PROVE  IInv'
<1>1. Good(records', next) /\ \A o \in Op \cup {None} : Named(o, records, next) => Named(o, records', next)
  BY KeepsGood DEF IInv, TypeOK
<1>2. TypeOK'
  <2>1. PICK limit \in Limits : Len(records) <= limit
    BY DEF IInv, TypeOK
  <2>2. Len(records') <= limit
    BY <2>1, LimitsAssumption, LenProperties DEF IInv, TypeOK
  <2> QED BY <2>2 DEF IInv, TypeOK
<1>3. \A x \in Sessions : Named(op'[x], records', next')
  BY <1>1
<1>4. Good(records', next')
  BY <1>1
<1> QED BY <1>2, <1>3, <1>4 DEF IInv, Good, Named

\* Marking one record keeps them all.
LEMMA MarkKeeps ==
    ASSUME NEW s \in Seq(Record), NEW k \in DOMAIN s, NEW r \in Record,
           r.id = s[k].id, r.msg = s[k].msg, r.reply = s[k].reply, r.target = s[k].target
    PROVE  /\ [s EXCEPT ![k] = r] \in Seq(Record)
           /\ Len([s EXCEPT ![k] = r]) = Len(s)
           /\ Keeps([s EXCEPT ![k] = r], s)
<1> DEFINE t == [s EXCEPT ![k] = r]
           f == [i \in DOMAIN s |-> i]
<1>1. Len(s) \in Nat /\ DOMAIN s = 1..Len(s)
  BY LenProperties
<1>2. t \in Seq(Record) /\ Len(t) = Len(s)
  BY ExceptSeq
<1>3. DOMAIN t = DOMAIN s /\ \A i \in DOMAIN s : t[i] = IF i = k THEN r ELSE s[i]
  OBVIOUS
<1>4. f \in [DOMAIN t -> DOMAIN s] /\ \A i \in DOMAIN s : f[i] = i
  BY <1>3
<1> HIDE DEF t, f
<1>5. Keeps(t, s)
  BY <1>1, <1>3, <1>4 DEF Keeps
<1> QED BY <1>2, <1>5 DEF t

\* No record is lost or marked when they all stay as they are.
LEMMA SameKeeps == ASSUME NEW s \in Seq(Record) PROVE Keeps(s, s)
<1> DEFINE f == [i \in DOMAIN s |-> i]
<1>1. f \in [DOMAIN s -> DOMAIN s] /\ \A i \in DOMAIN s : f[i] = i
  OBVIOUS
<1> HIDE DEF f
<1> QED BY <1>1, LenProperties DEF Keeps

\* The steps that change nothing stored: a check begins an operation with an id
\* that is kept, and an answer ends one.
LEMMA LookIInv ==
    ASSUME IInv, UNCHANGED <<records, next, said>>, NEW s \in Sessions,
           Done(s) \/ \E i \in DOMAIN records, do \in {"reply", "delete"} :
                         Begin(s, do, records[i].id, records[i].msg)
    PROVE  IInv'
<1>1. records \in Seq(Record) /\ op \in [Sessions -> Op \cup {None}]
  BY DEF IInv, TypeOK
<1>2. CASE Done(s)
  <2>1. op' \in [Sessions -> Op \cup {None}]
    BY <1>1, <1>2 DEF Done
  <2>2. \A x \in Sessions : Named(op'[x], records, next)
    BY <1>1, <1>2 DEF Done, Named, IInv
  <2> QED BY <1>1, <2>1, <2>2, SameKeeps, KeepsIInv, LenProperties
<1>3. ASSUME NEW i \in DOMAIN records, NEW do \in {"reply", "delete"},
             Begin(s, do, records[i].id, records[i].msg)
      PROVE  IInv'
  <2> DEFINE o == [do |-> do, id |-> records[i].id, msg |-> records[i].msg]
  <2>1. o \in Op
    BY <1>1, Fields DEF Op
  <2>2. op' = [op EXCEPT ![s] = o]
    BY <1>3 DEF Begin
  <2>3. Named(o, records, next)
    <3>1. \A j \in DOMAIN records : records[j].id = records[i].id => j = i
      <4>1. DOMAIN records = 1..Len(records) /\ Len(records) \in Nat
        BY <1>1, LenProperties
      <4>2. \A j \in DOMAIN records : j = i \/ j < i \/ i < j
        BY <4>1
      <4> QED BY <1>1, <4>2, Fields DEF IInv, Good
    <3>2. o.id = records[i].id /\ o.msg = records[i].msg
      OBVIOUS
    <3>3. records[i].id < next
      BY DEF IInv, Good
    <3> HIDE DEF o
    <3> QED BY <3>1, <3>2, <3>3 DEF Named
  <2> HIDE DEF o
  <2>4. op' \in [Sessions -> Op \cup {None}]
    BY <1>1, <2>1, <2>2
  <2>5. \A x \in Sessions : Named(op'[x], records, next)
    BY <1>1, <2>2, <2>3 DEF IInv
  <2> QED BY <1>1, <2>4, <2>5, SameKeeps, KeepsIInv, LenProperties
<1> QED BY <1>2, <1>3

\* A heart, an edit or a pin marks one record.
LEMMA MarkIInv ==
    ASSUME IInv, UNCHANGED <<next, op, said>>,
           NEW k \in DOMAIN records, NEW r \in Record, records' = [records EXCEPT ![k] = r],
           r.id = records[k].id, r.msg = records[k].msg,
           r.reply = records[k].reply, r.target = records[k].target
    PROVE  IInv'
<1>1. records \in Seq(Record) /\ Len(records) \in Nat
  BY LenProperties DEF IInv, TypeOK
<1>2. records' \in Seq(Record) /\ Len(records') = Len(records) /\ Keeps(records', records)
  BY <1>1, MarkKeeps
<1>3. /\ op' \in [Sessions -> Op \cup {None}]
      /\ \A x \in Sessions : Named(op'[x], records, next)
  BY DEF IInv, TypeOK
<1>4. Len(records') <= Len(records)
  BY <1>1, <1>2
<1>5. next' = next /\ said' = said
  OBVIOUS
<1> QED BY ONLY IInv, <1>2, <1>3, <1>4, <1>5, KeepsIInv

\* delete: the record goes and the handler goes on to tell the clients.
LEMMA DeleteIInv == ASSUME IInv, NEW s \in Sessions, Delete(s) PROVE IInv'
<1>1. records \in Seq(Record) /\ Len(records) \in Nat /\ op \in [Sessions -> Op \cup {None}]
  BY LenProperties DEF IInv, TypeOK
<1>2. CASE Done(s) /\ UNCHANGED records
  BY <1>2, LookIInv DEF Delete
<1>3. ASSUME NEW i \in find(op[s].id), records' = Without(records, i),
             Begin(s, "untell", op[s].id, op[s].msg)
      PROVE  IInv'
  <2>1. i \in DOMAIN records
    BY DEF find
  <2>2. records' \in Seq(Record) /\ Len(records') <= Len(records) /\ Keeps(records', records)
    BY <1>1, <1>3, <2>1, WithoutKeeps
  <2>3. op[s] \in Op /\ Named(op[s], records, next)
    BY <1>1 DEF Delete, IInv
  <2> DEFINE o == [do |-> "untell", id |-> op[s].id, msg |-> op[s].msg]
  <2>4. o \in Op /\ o.id = op[s].id /\ o.msg = op[s].msg
    BY <2>3 DEF Op
  <2>5. op' = [op EXCEPT ![s] = o]
    BY <1>3 DEF Begin
  <2> HIDE DEF o
  <2>6. Named(o, records, next)
    BY <2>3, <2>4 DEF Named, Delete
  <2>7. op' \in [Sessions -> Op \cup {None}] /\ \A x \in Sessions : Named(op'[x], records, next)
    BY <1>1, <2>4, <2>5, <2>6 DEF IInv
  <2> QED BY <2>2, <2>7, KeepsIInv DEF Delete
<1> QED BY <1>2, <1>3 DEF Delete

\* push: the new record is appended and the oldest are trimmed, or nothing is
\* kept; the handler goes on to tell the clients the id it took.
LEMMA SayIInv ==
    ASSUME IInv, NEW s \in Sessions, NEW media \in BOOLEAN, NEW limit \in Limits,
           Say(s, media, limit)
    PROVE  IInv'
<1>1. /\ records \in Seq(Record) /\ Len(records) \in Nat
      /\ op \in [Sessions -> Op \cup {None}]
      /\ next \in Nat /\ said \in Nat /\ limit \in Nat
  BY LenProperties, LimitsAssumption DEF IInv, TypeOK
<1> DEFINE r == [id |-> next, msg |-> said, author |-> s, media |-> media,
                 reply  |-> IF Replying(s) THEN op[s].id ELSE None,
                 target |-> IF Replying(s) THEN op[s].msg ELSE None,
                 hearts |-> {}, edited |-> FALSE, pinned |-> FALSE]
           o == [do |-> "tell", id |-> next, msg |-> said]
<1>2. /\ said' = said + 1 /\ next' = next + 1 /\ op' = [op EXCEPT ![s] = o]
      /\ records' = IF limit = 0 THEN records ELSE Newest(Append(records, r), limit)
  BY DEF Say, Begin
<1>3. Replying(s) => op[s] \in Op /\ op[s].id \in Nat /\ op[s].msg \in Nat
  BY <1>1 DEF Replying, Op
<1>4. /\ r \in Record /\ r.id = next /\ r.msg = said
      /\ r.reply # None => Replying(s) /\ r.reply = op[s].id /\ r.target = op[s].msg
  BY <1>1, <1>3 DEF Record
<1>5. o \in Op /\ o.id = next /\ o.msg = said
  BY <1>1 DEF Op
<1> HIDE DEF r, o
<1>6. r.reply # None => /\ r.reply < next
                        /\ \A i \in DOMAIN records :
                              records[i].id = r.reply => records[i].msg = r.target
  BY <1>4 DEF IInv, Named, Replying
<1> DEFINE t == Append(records, r)
<1>7. /\ t \in Seq(Record) /\ Good(t, next + 1)
      /\ \A p \in Op \cup {None} : Named(p, records, next) => Named(p, t, next + 1)
  BY <1>1, <1>4, <1>6, AppendGood DEF IInv
<1>8. \A i \in DOMAIN t : t[i].id = o.id => t[i].msg = o.msg
  <2>1. \A i \in DOMAIN t : (i \in DOMAIN records /\ t[i] = records[i]) \/ t[i] = r
    BY <1>1, <1>4, AppendProperties, LenProperties
  <2>2. \A i \in DOMAIN records : records[i].id # next
    BY <1>1, Fields DEF IInv, Good
  <2> QED BY <1>4, <1>5, <2>1, <2>2
<1> HIDE DEF t
<1>9. \A x \in Sessions : Named(op'[x], t, next + 1)
  <2>1. Named(o, t, next + 1)
    BY <1>1, <1>5, <1>8 DEF Named
  <2>2. \A x \in Sessions \ {s} : op'[x] = op[x] /\ Named(op[x], t, next + 1)
    BY <1>1, <1>2, <1>7 DEF IInv
  <2> QED BY <1>1, <1>2, <2>1, <2>2
<1>10. op' \in [Sessions -> Op \cup {None}]
  BY <1>1, <1>2, <1>5
<1>11. records' \in Seq(Record) /\ Keeps(records', t) /\ \E l \in Limits : Len(records') <= l
  <2>1. CASE limit = 0
    <3>1. records' = records
      BY <1>2, <2>1
    <3>2. Keeps(records, t)
      <4> DEFINE f == [i \in DOMAIN records |-> i]
      <4>1. /\ DOMAIN records \subseteq DOMAIN t
            /\ \A i \in DOMAIN records : t[i] = records[i] /\ i \in Nat
        BY <1>1, <1>4, AppendProperties, LenProperties DEF t
      <4>2. f \in [DOMAIN records -> DOMAIN t] /\ \A i \in DOMAIN records : f[i] = i
        BY <4>1
      <4> HIDE DEF f
      <4> QED BY <4>1, <4>2 DEF Keeps
    <3> QED BY <1>1, <3>1, <3>2 DEF IInv, TypeOK
  <2>2. CASE limit # 0
    <3>1. records' = Newest(t, limit)
      BY <1>2, <2>2 DEF t
    <3> QED BY <1>1, <1>7, <3>1, NewestKeeps
  <2> QED BY <2>1, <2>2
<1>12. next + 1 \in Nat /\ said + 1 \in Nat
  BY <1>1
<1>13. /\ Good(records', next + 1)
       /\ \A p \in Op \cup {None} : Named(p, t, next + 1) => Named(p, records', next + 1)
  BY <1>7, <1>11, <1>12, KeepsGood
<1>14. \A x \in Sessions : Named(op'[x], records', next')
  BY <1>2, <1>9, <1>10, <1>13
<1>15. Good(records', next')
  BY <1>2, <1>13
<1>16. TypeOK'
  BY <1>2, <1>10, <1>11, <1>12 DEF TypeOK
<1> QED BY <1>14, <1>15, <1>16 DEF IInv, Good, Named

\* next_id: an id goes by.
LEMMA SayUnkeptIInv == ASSUME IInv, NEW s \in Sessions, SayUnkept(s) PROVE IInv'
<1>1. /\ records \in Seq(Record) /\ op \in [Sessions -> Op \cup {None}]
      /\ next \in Nat /\ said \in Nat
  BY DEF IInv, TypeOK
<1>2. /\ records' = records /\ next' = next + 1 /\ said' = said + 1
      /\ op' = [op EXCEPT ![s] = None]
  BY DEF SayUnkept, Done
<1>3. TypeOK'
  BY <1>1, <1>2 DEF IInv, TypeOK
<1>4. \A i \in DOMAIN records : records[i].id \in Nat
  BY <1>1, Fields
<1>5. Good(records, next + 1)
  BY <1>1, <1>4 DEF IInv, Good
<1>6. ASSUME NEW x \in Sessions PROVE Named(op'[x], records, next + 1)
  <2>1. op'[x] = None \/ (op'[x] = op[x] /\ op[x] \in Op)
    BY <1>1, <1>2
  <2>2. op[x] \in Op => op[x].id \in Nat
    BY DEF Op
  <2> QED BY <1>1, <2>1, <2>2 DEF IInv, Named
<1> QED BY <1>2, <1>3, <1>5, <1>6 DEF IInv, Good, Named

\* A restart continues above every id that is kept, and ends every handler.
LEMMA RestartIInv == ASSUME IInv, Restart PROVE IInv'
<1>1. /\ records \in Seq(Record) /\ Len(records) \in Nat /\ next \in Nat /\ said \in Nat
      /\ \E limit \in Limits : Len(records) <= limit
      /\ Good(records, next)
  BY LenProperties DEF IInv, TypeOK
<1>2. /\ records' \in {records, <<>>} /\ next' = continue(records') /\ said' = said
      /\ op' = [s \in Sessions |-> None]
  BY DEF Restart
<1>3. /\ records' \in Seq(Record) /\ Good(records', next)
      /\ \E limit \in Limits : Len(records') <= limit
  <2>1. CASE records' = records
    BY <1>1, <2>1
  <2>2. CASE records' = <<>>
    <3>1. Len(records') = 0 /\ DOMAIN records' = {} /\ records' \in Seq(Record)
      BY <2>2
    <3>2. Good(records', next)
      BY <3>1 DEF Good
    <3>3. \E limit \in Limits : Len(records') <= limit
      <4>1. PICK limit : limit \in Limits
        BY LimitsAssumption
      <4>2. limit \in Nat
        BY <4>1, LimitsAssumption
      <4> QED BY <3>1, <4>1, <4>2
    <3> QED BY <3>1, <3>2, <3>3
  <2> QED BY <1>2, <2>1, <2>2
<1>4. continue(records') \in Nat /\ Good(records', continue(records'))
  BY <1>1, <1>3, ContinueGood
<1>5. TypeOK'
  BY <1>1, <1>2, <1>3, <1>4 DEF TypeOK
<1>6. \A x \in Sessions : Named(op'[x], records', next')
  BY <1>2 DEF Named
<1>7. Good(records', next')
  BY <1>2, <1>4
<1> QED BY <1>5, <1>6, <1>7 DEF IInv, Good, Named

\* Every step keeps the invariant.
LEMMA NextIInv == IInv /\ [Next]_vars => IInv'
<1> SUFFICES ASSUME IInv, [Next]_vars PROVE IInv'
  OBVIOUS
<1>1. CASE UNCHANGED vars
  BY <1>1 DEF vars, IInv, TypeOK, Good, Named
<1>2. CASE Restart
  BY <1>2, RestartIInv
<1>3. ASSUME NEW s \in Sessions, HandlerStep(s) PROVE IInv'
  <2>1. CASE CheckReply(s)
    BY <2>1, LookIInv DEF CheckReply
  <2>2. CASE SayUnkept(s)
    BY <2>2, SayUnkeptIInv
  <2>3. CASE Tell(s)
    BY <2>3, LookIInv DEF Tell
  <2>4. CASE CheckDelete(s)
    BY <2>4, LookIInv DEF CheckDelete
  <2>5. CASE Delete(s)
    BY <2>5, DeleteIInv
  <2>6. CASE Heart(s)
    <3>1. PICK i \in DOMAIN records :
            records' = [records EXCEPT ![i].hearts = IF s \in @ THEN @ \ {s} ELSE @ \cup {s}]
      BY <2>6 DEF Heart
    <3> DEFINE r == [records[i] EXCEPT !.hearts = IF s \in @ THEN @ \ {s} ELSE @ \cup {s}]
    <3>2. records[i] \in Record
      BY Fields DEF IInv, TypeOK
    <3>3. /\ r \in Record /\ r.id = records[i].id /\ r.msg = records[i].msg
          /\ r.reply = records[i].reply /\ r.target = records[i].target
      BY <3>2 DEF Record
    <3>4. records' = [records EXCEPT ![i] = r]
      BY <3>1
    <3> HIDE DEF r
    <3> QED BY <2>6, <3>3, <3>4, MarkIInv DEF Heart
  <2>7. CASE Edit(s)
    <3>1. PICK i \in DOMAIN records : records' = [records EXCEPT ![i].edited = TRUE]
      BY <2>7 DEF Edit
    <3> DEFINE r == [records[i] EXCEPT !.edited = TRUE]
    <3>2. records[i] \in Record
      BY Fields DEF IInv, TypeOK
    <3>3. /\ r \in Record /\ r.id = records[i].id /\ r.msg = records[i].msg
          /\ r.reply = records[i].reply /\ r.target = records[i].target
      BY <3>2 DEF Record
    <3>4. records' = [records EXCEPT ![i] = r]
      BY <3>1
    <3> HIDE DEF r
    <3> QED BY <2>7, <3>3, <3>4, MarkIInv DEF Edit
  <2>8. ASSUME NEW limit \in PinLimits, Pin(s, limit) PROVE IInv'
    <3>1. PICK i \in DOMAIN records : records' = [records EXCEPT ![i].pinned = ~@]
      BY <2>8 DEF Pin
    <3> DEFINE r == [records[i] EXCEPT !.pinned = ~@]
    <3>2. records[i] \in Record
      BY Fields DEF IInv, TypeOK
    <3>3. /\ r \in Record /\ r.id = records[i].id /\ r.msg = records[i].msg
          /\ r.reply = records[i].reply /\ r.target = records[i].target
      BY <3>2 DEF Record
    <3>4. records' = [records EXCEPT ![i] = r]
      BY <3>1
    <3> HIDE DEF r
    <3> QED BY <2>8, <3>3, <3>4, MarkIInv DEF Pin
  <2>9. ASSUME NEW media \in BOOLEAN, NEW limit \in Limits, Say(s, media, limit) PROVE IInv'
    BY <2>9, SayIInv
  <2> QED BY <1>3, <2>1, <2>2, <2>3, <2>4, <2>5, <2>6, <2>7, <2>8, <2>9 DEF HandlerStep
<1> QED BY <1>1, <1>2, <1>3 DEF Next

-----------------------------------------------------------------------------
(* What follows.                                                           *)

\* The invariant holds of every history.
THEOREM Histories == Spec => []IInv
BY InitIInv, NextIInv, PTL DEF Spec

\* What messages.rs keeps in memory and on disk is well-formed, and never more
\* records than the largest limit the configuration ever had.
THEOREM TypeCorrect == Spec => []TypeOK
<1>1. IInv => TypeOK
  BY DEF IInv
<1> QED BY <1>1, Histories, PTL

\* The stored ids rise and the next is above them, whatever is pushed, trimmed,
\* deleted or reloaded: the binary search of History::position and the page
\* cursors are right to rest on it.
THEOREM IdsRise == Spec => []RisingIds
<1>1. IInv => RisingIds
  BY DEF IInv, Good, RisingIds
<1> QED BY <1>1, Histories, PTL

\* DeleteRequest acts on the message whose author it checked, and a reply is
\* stored for the message that was looked up, although the history is unlocked
\* in between.
THEOREM CheckedNamed == Spec => []CheckedIsNamed
<1>1. IInv => CheckedIsNamed
  BY DEF IInv, Named, CheckedIsNamed, find
<1> QED BY <1>1, Histories, PTL

\* A stored reply answers one message for ever, although a restart hands out
\* the ids of deleted messages again.
THEOREM RepliesKept == Spec => []RepliesStay
<1>1. IInv => RepliesStay
  BY DEF IInv, Good, RepliesStay, find
<1> QED BY <1>1, Histories, PTL

-----------------------------------------------------------------------------
(* The pins.                                                               *)

PinsIn(s) == {i \in DOMAIN s : s[i].pinned}

\* The pins of t are pins of s, each of one of its own.
LEMMA PinsFew ==
    ASSUME NEW s \in Seq(Record), NEW t \in Seq(Record), NEW f \in [DOMAIN t -> DOMAIN s],
           \A i, j \in DOMAIN t : f[i] = f[j] => i = j,
           \A i \in DOMAIN t : t[i].pinned => s[f[i]].pinned
    PROVE  /\ IsFiniteSet(PinsIn(s)) /\ IsFiniteSet(PinsIn(t))
           /\ Cardinality(PinsIn(t)) <= Cardinality(PinsIn(s))
<1>1. Len(s) \in Nat /\ DOMAIN s = 1..Len(s)
  BY LenProperties
<1>2. IsFiniteSet(1..Len(s))
  BY <1>1, FS_Interval
<1>3. IsFiniteSet(PinsIn(s))
  BY <1>1, <1>2, FS_Subset DEF PinsIn
<1> DEFINE g == [i \in PinsIn(t) |-> f[i]]
<1>4. g \in Injection(PinsIn(t), PinsIn(s))
  <2>1. PinsIn(t) \subseteq DOMAIN t /\ \A i \in PinsIn(t) : f[i] \in PinsIn(s)
    BY DEF PinsIn
  <2>2. g \in [PinsIn(t) -> PinsIn(s)]
    BY <2>1
  <2>3. \A i, j \in PinsIn(t) : g[i] = g[j] => i = j
    BY <2>1
  <2> QED BY <2>2, <2>3 DEF Injection, IsInjective
<1> QED BY <1>3, <1>4, FS_Injection

\* The pins can be counted.
LEMMA PinsFinite ==
    ASSUME NEW s \in Seq(Record)
    PROVE  IsFiniteSet(PinsIn(s)) /\ Cardinality(PinsIn(s)) \in Nat
<1>1. Len(s) \in Nat /\ DOMAIN s = 1..Len(s)
  BY LenProperties
<1>2. IsFiniteSet(1..Len(s))
  BY <1>1, FS_Interval
<1>3. IsFiniteSet(PinsIn(s))
  BY <1>1, <1>2, FS_Subset DEF PinsIn
<1> QED BY <1>3, FS_CardinalityType

\* Vec::remove pins nothing.
LEMMA WithoutPins ==
    ASSUME NEW s \in Seq(Record), NEW k \in DOMAIN s
    PROVE  Cardinality(PinsIn(Without(s, k))) <= Cardinality(PinsIn(s))
<1>1. Len(s) \in Nat /\ DOMAIN s = 1..Len(s) /\ k \in 1..Len(s)
  BY LenProperties
<1>2. PICK t : t = Without(s, k)
  OBVIOUS
<1>3. t \in Seq(Record) /\ Len(t) = Len(s) - 1
  BY <1>2, WithoutKeeps
<1>4. t = [i \in 1..Len(s) - 1 |-> IF i < k THEN s[i] ELSE s[i + 1]]
  BY <1>2 DEF Without
<1> DEFINE f == [i \in 1..Len(s) - 1 |-> IF i < k THEN i ELSE i + 1]
<1>5. f \in [1..Len(s) - 1 -> DOMAIN s]
  BY <1>1
<1>6. \A i \in 1..Len(s) - 1 : t[i] = s[f[i]]
  BY <1>4
<1>7. \A i, j \in 1..Len(s) - 1 : f[i] = f[j] => i = j
  BY <1>1
<1>8. DOMAIN t = 1..Len(s) - 1
  BY <1>4
<1> HIDE DEF f
<1>9. /\ f \in [DOMAIN t -> DOMAIN s] /\ \A i, j \in DOMAIN t : f[i] = f[j] => i = j
      /\ \A i \in DOMAIN t : t[i].pinned => s[f[i]].pinned
  BY <1>5, <1>6, <1>7, <1>8
<1>10. Cardinality(PinsIn(t)) <= Cardinality(PinsIn(s))
  BY ONLY <1>3, <1>9, s \in Seq(Record), PinsFew
<1> QED BY <1>2, <1>10

\* Nor does the trim.
LEMMA NewestPins ==
    ASSUME NEW s \in Seq(Record), NEW n \in Nat
    PROVE  Cardinality(PinsIn(Newest(s, n))) <= Cardinality(PinsIn(s))
<1>1. Len(s) \in Nat /\ DOMAIN s = 1..Len(s)
  BY LenProperties
<1>2. CASE Len(s) <= n
  <2>1. Newest(s, n) = s
    BY <1>2 DEF Newest
  <2>2. Cardinality(PinsIn(s)) \in Nat
    BY PinsFinite
  <2> QED BY <2>1, <2>2
<1>3. CASE ~(Len(s) <= n)
  <2>1. PICK t : t = SubSeq(s, Len(s) - n + 1, Len(s))
    OBVIOUS
  <2>2. Newest(s, n) = t
    BY <1>3, <2>1 DEF Newest
  <2>3. t \in Seq(Record) /\ DOMAIN t = 1..n
    BY <1>1, <1>3, <2>1, SubSeqProperties, LenProperties
  <2>4. \A i \in 1..n : t[i] = s[i + (Len(s) - n)]
    BY <1>1, <1>3, <2>1, <2>3, SubSeqProperties
  <2> DEFINE f == [i \in 1..n |-> i + (Len(s) - n)]
  <2>5. f \in [1..n -> DOMAIN s]
    BY <1>1, <1>3
  <2>6. \A i, j \in 1..n : f[i] = f[j] => i = j
    BY <1>1
  <2>7. \A i \in 1..n : t[i] = s[f[i]]
    BY <2>4
  <2> HIDE DEF f
  <2>8. Cardinality(PinsIn(t)) <= Cardinality(PinsIn(s))
    BY <2>3, <2>5, <2>6, <2>7, PinsFew
  <2> QED BY <2>2, <2>8
<1> QED BY <1>2, <1>3

\* push: a new message is not pinned, and the trim pins nothing.
LEMMA SayPins ==
    ASSUME IInv, NEW s \in Sessions, NEW media \in BOOLEAN, NEW limit \in Limits,
           Say(s, media, limit)
    PROVE  Cardinality(PinsIn(records')) <= Cardinality(PinsIn(records))
<1>1. /\ records \in Seq(Record) /\ Len(records) \in Nat /\ DOMAIN records = 1..Len(records)
      /\ op \in [Sessions -> Op \cup {None}]
      /\ next \in Nat /\ said \in Nat /\ limit \in Nat
  BY LenProperties, LimitsAssumption DEF IInv, TypeOK
<1>2. PICK r : /\ r = [id |-> next, msg |-> said, author |-> s, media |-> media,
                       reply  |-> IF Replying(s) THEN op[s].id ELSE None,
                       target |-> IF Replying(s) THEN op[s].msg ELSE None,
                       hearts |-> {}, edited |-> FALSE, pinned |-> FALSE]
               /\ records' = IF limit = 0 THEN records ELSE Newest(Append(records, r), limit)
  BY DEF Say
<1>3. Replying(s) => op[s] \in Op /\ op[s].id \in Nat /\ op[s].msg \in Nat
  BY <1>1 DEF Replying, Op
<1>4. r \in Record /\ r.pinned = FALSE
  BY <1>1, <1>2, <1>3 DEF Record
<1>5. PICK t : t = Append(records, r)
  OBVIOUS
<1>6. /\ t \in Seq(Record) /\ DOMAIN t = 1..Len(records) + 1
      /\ \A i \in 1..Len(records) : t[i] = records[i]
      /\ t[Len(records) + 1] = r
  BY <1>1, <1>4, <1>5, AppendProperties, LenProperties
<1>7. PinsIn(t) = PinsIn(records)
  <2>1. \A i \in DOMAIN t : i \in DOMAIN records \/ ~t[i].pinned
    BY <1>1, <1>4, <1>6
  <2>2. \A i \in DOMAIN records : i \in DOMAIN t /\ t[i] = records[i]
    BY <1>1, <1>6
  <2> QED BY <2>1, <2>2 DEF PinsIn
<1>8. CASE limit = 0
  <2>1. records' = records
    BY <1>2, <1>8
  <2> QED BY <1>1, <2>1, PinsFinite
<1>9. CASE limit # 0
  <2>1. records' = Newest(t, limit)
    BY <1>2, <1>5, <1>9
  <2>2. Cardinality(PinsIn(Newest(t, limit))) <= Cardinality(PinsIn(t))
    BY <1>1, <1>6, NewestPins
  <2> QED BY <1>7, <2>1, <2>2
<1> QED BY <1>8, <1>9

\* A mark that is no pin.
LEMMA MarkPins ==
    ASSUME NEW s \in Seq(Record), NEW k \in DOMAIN s, NEW r, r.pinned = s[k].pinned
    PROVE  PinsIn([s EXCEPT ![k] = r]) = PinsIn(s)
  BY DEF PinsIn

\* pin: whatever a moderator pins while messages come, are trimmed, deleted and
\* reloaded, there are never more pins than a limit that max_pinned_messages had.
THEOREM PinsStayBounded == Spec => []PinsBounded
<1>1. Init => PinsBounded
  <2> SUFFICES ASSUME Init PROVE PinsBounded
    OBVIOUS
  <2>1. Pinned = {}
    BY DEF Init, Pinned
  <2>2. Cardinality(Pinned) = 0
    BY <2>1, FS_EmptySet
  <2>3. PICK limit \in PinLimits : limit \in Nat
    BY LimitsAssumption
  <2> QED BY <2>2, <2>3 DEF PinsBounded
<1>2. IInv /\ PinsBounded /\ [Next]_vars => PinsBounded'
  <2> SUFFICES ASSUME IInv, PinsBounded, [Next]_vars PROVE PinsBounded'
    OBVIOUS
  <2>1. PICK most \in PinLimits : Cardinality(PinsIn(records)) <= most
    BY DEF PinsBounded, Pinned, PinsIn
  <2>2. most \in Nat /\ records \in Seq(Record) /\ PinLimits \subseteq Nat
    BY LimitsAssumption DEF IInv, TypeOK
  <2>3. IsFiniteSet(PinsIn(records)) /\ Cardinality(PinsIn(records)) \in Nat
    BY <2>2, PinsFinite
  <2>n. IInv'
    BY NextIInv
  <2>m. Cardinality(PinsIn(records')) \in Nat
    <3>1. records' \in Seq(Record)
      BY <2>n DEF IInv, TypeOK
    <3> QED BY <3>1, PinsFinite
  <2>4. ASSUME NEW limit \in PinLimits, Cardinality(PinsIn(records')) <= limit
        PROVE  PinsBounded'
    BY <2>4 DEF PinsBounded, Pinned, PinsIn
  <2>5. ASSUME Cardinality(PinsIn(records')) <= Cardinality(PinsIn(records))
        PROVE  PinsBounded'
    <3>1. Cardinality(PinsIn(records')) <= most
      BY <2>1, <2>2, <2>3, <2>5, <2>m
    <3> QED BY <2>4, <3>1
  <2>6. CASE records' = records
    BY <2>3, <2>5, <2>6
  <2>7. CASE Restart
    <3>1. CASE records' = <<>>
      <4>1. PinsIn(records') = {}
        BY <3>1 DEF PinsIn
      <4>2. Cardinality(PinsIn(records')) = 0
        BY <4>1, FS_EmptySet
      <4> QED BY <2>3, <2>5, <4>2
    <3> QED BY <2>6, <2>7, <3>1 DEF Restart
  <2>8. ASSUME NEW s \in Sessions, HandlerStep(s) PROVE PinsBounded'
    <3>1. CASE CheckReply(s) \/ SayUnkept(s) \/ Tell(s) \/ CheckDelete(s)
      BY <2>6, <3>1 DEF CheckReply, SayUnkept, Tell, CheckDelete
    <3>2. CASE Delete(s)
      <4>1. ASSUME NEW i \in find(op[s].id), records' = Without(records, i) PROVE PinsBounded'
        <5>1. i \in DOMAIN records
          BY DEF find
        <5> QED BY <2>2, <2>5, <4>1, <5>1, WithoutPins
      <4> QED BY <2>6, <3>2, <4>1 DEF Delete
    <3>3. CASE Heart(s)
      <4>1. PICK i \in DOMAIN records :
              records' = [records EXCEPT ![i].hearts = IF s \in @ THEN @ \ {s} ELSE @ \cup {s}]
        BY <3>3 DEF Heart
      <4>2. PICK r : r = [records[i] EXCEPT !.hearts = IF s \in @ THEN @ \ {s} ELSE @ \cup {s}]
        OBVIOUS
      <4>3. records[i] \in Record
        BY <2>2, Fields
      <4>4. r.pinned = records[i].pinned
        BY <4>2, <4>3 DEF Record
      <4>5. records' = [records EXCEPT ![i] = r]
        BY <4>1, <4>2
      <4>6. PinsIn(records') = PinsIn(records)
        BY <2>2, <4>4, <4>5, MarkPins
      <4> QED BY <2>3, <2>5, <4>6
    <3>4. CASE Edit(s)
      <4>1. PICK i \in DOMAIN records : records' = [records EXCEPT ![i].edited = TRUE]
        BY <3>4 DEF Edit
      <4>2. PICK r : r = [records[i] EXCEPT !.edited = TRUE]
        OBVIOUS
      <4>3. records[i] \in Record
        BY <2>2, Fields
      <4>4. r.pinned = records[i].pinned
        BY <4>2, <4>3 DEF Record
      <4>5. records' = [records EXCEPT ![i] = r]
        BY <4>1, <4>2
      <4>6. PinsIn(records') = PinsIn(records)
        BY <2>2, <4>4, <4>5, MarkPins
      <4> QED BY <2>3, <2>5, <4>6
    <3>5. ASSUME NEW limit \in PinLimits, Pin(s, limit) PROVE PinsBounded'
      <4>1. PICK i \in DOMAIN records :
              /\ records[i].pinned \/ Cardinality(PinsIn(records)) < limit
              /\ records' = [records EXCEPT ![i].pinned = ~@]
        BY <3>5 DEF Pin, Pinned, PinsIn
      <4>2. CASE records[i].pinned
        <5>1. PinsIn(records') \in SUBSET PinsIn(records)
          <6>1. DOMAIN records' = DOMAIN records
            BY <4>1
          <6>2. \A j \in DOMAIN records : j # i => records'[j] = records[j]
            BY <4>1
          <6> QED BY <4>2, <6>1, <6>2 DEF PinsIn
        <5>2. Cardinality(PinsIn(records')) <= Cardinality(PinsIn(records))
          BY <2>3, <5>1, FS_Subset
        <5> QED BY <2>5, <5>2
      <4>3. CASE ~records[i].pinned
        <5>1. PinsIn(records') \in SUBSET (PinsIn(records) \cup {i})
          <6>1. DOMAIN records' = DOMAIN records
            BY <4>1
          <6>2. \A j \in DOMAIN records : j # i => records'[j] = records[j]
            BY <4>1
          <6> QED BY <6>1, <6>2 DEF PinsIn
        <5>2. /\ IsFiniteSet(PinsIn(records) \cup {i})
              /\ Cardinality(PinsIn(records) \cup {i}) <= Cardinality(PinsIn(records)) + 1
              /\ Cardinality(PinsIn(records) \cup {i}) \in Nat
          <6>1. PICK c : c = Cardinality(PinsIn(records))
            OBVIOUS
          <6>2. PICK S : S = PinsIn(records) \cup {i}
            OBVIOUS
          <6>3. IsFiniteSet(S) /\ Cardinality(S) = IF i \in PinsIn(records) THEN c ELSE c + 1
            BY <2>3, <6>1, <6>2, FS_AddElement
          <6>4. c \in Nat
            BY <2>3, <6>1
          <6>5. Cardinality(S) <= c + 1 /\ Cardinality(S) \in Nat
            BY ONLY <6>3, <6>4
          <6> QED BY <6>1, <6>2, <6>3, <6>5
        <5>3. Cardinality(PinsIn(records')) <= Cardinality(PinsIn(records) \cup {i})
          BY <5>1, <5>2, FS_Subset
        <5>4. limit \in Nat /\ Cardinality(PinsIn(records)) + 1 <= limit
          BY <2>2, <2>3, <4>1, <4>3
        <5>5. Cardinality(PinsIn(records')) <= limit
          BY <2>3, <2>m, <5>2, <5>3, <5>4
        <5> QED BY <2>4, <5>5
      <4> QED BY <4>2, <4>3
    <3>6. ASSUME NEW media \in BOOLEAN, NEW limit \in Limits, Say(s, media, limit)
          PROVE  PinsBounded'
      BY <2>5, <3>6, SayPins
    <3> QED BY <2>8, <3>1, <3>2, <3>3, <3>4, <3>5, <3>6 DEF HandlerStep
  <2>9. CASE UNCHANGED vars
    BY <2>6, <2>9 DEF vars
  <2> QED BY <2>7, <2>8, <2>9 DEF Next
<1> QED BY <1>1, <1>2, Histories, PTL DEF Spec

==============================================================================
