--------------------------- MODULE AccountsProofs ---------------------------
(***************************************************************************)
(* Proofs about Accounts for every set of addresses, usernames and         *)
(* passwords.                                                              *)
(*                                                                         *)
(* That the founder stays owner is not inductive: a ranking stores a role  *)
(* some time after it read the old one.  RankingInv says that it never     *)
(* holds a founder, and FirstInv that nothing can hold a name that is just *)
(* being registered as the first one, because whoever ranks has an account *)
(* (SessionHasAccount), so the registration would not have been the first. *)
(***************************************************************************)
EXTENDS Accounts, SequenceTheorems, TLAPS

\* A key is in a table.
TableInv ==
    \A u \in Users : u \notin entries => password[u] = None /\ role[u] = None

\* A task serves one name, and its entry carries that name or none.
NameInv ==
    \A c \in Conns :
        /\ task[c] = "out" <=> uname[c] = None
        /\ named[c] \in {None, uname[c]}
        /\ live[c] # None => named[c] # None

\* What a task remembers at the places where it is used.
HeldInv ==
    \A c \in Conns :
        /\ task[c] \in {"admit", "live", "read", "packet", "grant", "apply",
                        "ban", "evict", "rehash"} => held[c].latch \in Ranks
        /\ task[c] = "packet" => held[c].rank \in Ranks
        /\ task[c] \in {"setpass", "rehash"} => held[c].word \in Words
        /\ task[c] \in {"setpass", "setrole", "grant", "apply"} => held[c].role \in Ranks
        /\ task[c] \in {"grant", "apply", "ban", "evict"} => held[c].user \in Users

\* No two tasks serve one name.
UniqueInv ==
    \A c, d \in Conns : c # d /\ uname[c] # None => uname[c] # uname[d]

\* A name that is being registered has no password yet, and is no founder's.
RegisterInv ==
    \A c \in Conns :
        /\ task[c] \in {"register", "setpass"} => password[uname[c]] = None
        /\ task[c] \in {"register", "setpass", "setrole"} => uname[c] \notin founders

\* A task that ranks holds no founder.
RankingInv ==
    \A c \in Conns : task[c] = "grant" => held[c].user \notin founders

\* A name that is being registered as the first one has no role, and no task
\* is about to give it one.
FirstInv ==
    \A c \in Conns : task[c] \in {"setpass", "setrole"} /\ held[c].role = Owner =>
        /\ role[uname[c]] = None
        /\ \A d \in Conns : task[d] = "grant" => held[d].user # uname[c]

\* All but the types.
SafeInv ==
    /\ TableInv
    /\ NameInv
    /\ HeldInv
    /\ ~clashed => UniqueInv /\ RegisterInv /\ RankingInv /\ FirstInv
    /\ SessionHasAccount
    /\ FounderStays

IInv == TypeOK /\ SafeInv

TaskStep(c) ==
    LoginStep(c) \/ LoopStep(c) \/ RankStep(c) \/ AccountStep(c) \/ OuterStep(c)

-----------------------------------------------------------------------------
(* The ban list.                                                           *)

Distinct(s) == \A i, j \in DOMAIN s : s[i] = s[j] => i = j

\* set_ban lists nobody twice (the test before the push).
LEMMA BanDistinct ==
    ASSUME NEW s \in Seq(Users), Distinct(s), NEW u \in Users,
           \A i \in DOMAIN s : s[i] # u
    PROVE  Append(s, u) \in Seq(Users) /\ Distinct(Append(s, u))
  BY DEF Distinct

\* unset_ban keeps the others, once each.
LEMMA PardonDistinct ==
    ASSUME NEW s \in Seq(Users), Distinct(s), NEW k \in DOMAIN s
    PROVE  RemoveAt(s, k) \in Seq(Users) /\ Distinct(RemoveAt(s, k))
<1> DEFINE a == SubSeq(s, 1, k - 1)
           b == SubSeq(s, k + 1, Len(s))
           t == a \o b
           f(i) == IF i < k THEN i ELSE i + 1
<1>1. k \in 1..Len(s) /\ Len(s) \in Nat /\ DOMAIN s = 1..Len(s)
  OBVIOUS
<1>2. a \in Seq(Users) /\ Len(a) = k - 1 /\ \A i \in 1..(k - 1) : a[i] = s[i]
  BY <1>1
<1>3. b \in Seq(Users) /\ Len(b) = Len(s) - k /\ \A i \in 1..(Len(s) - k) : b[i] = s[k + i]
  BY <1>1
<1> HIDE DEF a, b
<1>4. t \in Seq(Users) /\ Len(t) = Len(s) - 1 /\
      \A i \in 1..(Len(s) - 1) : t[i] = IF i <= k - 1 THEN a[i] ELSE b[i - (k - 1)]
  <2>1. /\ t \in Seq(Users) /\ Len(t) = Len(a) + Len(b)
        /\ \A i \in 1..(Len(a) + Len(b)) : t[i] = IF i <= Len(a) THEN a[i] ELSE b[i - Len(a)]
    BY <1>2, <1>3, ConcatProperties
  <2>2. Len(a) + Len(b) = Len(s) - 1
    BY <1>1, <1>2, <1>3
  <2> HIDE DEF t
  <2> QED
    BY <1>2, <2>1, <2>2
<1> HIDE DEF t
<1>5. ASSUME NEW i \in 1..Len(t)
      PROVE  f(i) \in 1..Len(s) /\ t[i] = s[f(i)]
  <2>1. CASE i < k
    <3>1. t[i] = a[i]
      BY <1>1, <1>2, <1>3, <1>4, <2>1
    <3> QED
      BY <1>1, <1>2, <1>4, <2>1, <3>1
  <2>2. CASE ~(i < k)
    <3>1. i - (k - 1) \in 1..(Len(s) - k) /\ k + (i - (k - 1)) = i + 1
      BY <1>1, <1>4, <2>2
    <3>2. t[i] = b[i - (k - 1)]
      BY <1>1, <1>2, <1>3, <1>4, <2>2, <3>1
    <3>3. b[i - (k - 1)] = s[k + (i - (k - 1))]
      BY <1>3, <3>1
    <3>4. f(i) = i + 1 /\ f(i) \in 1..Len(s)
      BY <1>1, <1>4, <2>2
    <3> HIDE DEF f
    <3> QED
      BY <3>1, <3>2, <3>3, <3>4
  <2> QED
    BY <2>1, <2>2
<1>6. ASSUME NEW i \in 1..Len(t), NEW j \in 1..Len(t), t[i] = t[j]
      PROVE  i = j
  <2>1. f(i) = f(j)
    BY <1>1, <1>5, <1>6 DEF Distinct
  <2> QED
    BY <1>1, <1>4, <2>1
<1> QED
  <2>1. DOMAIN t = 1..Len(t)
    BY <1>4
  <2>2. t \in Seq(Users) /\ Distinct(t)
    BY <1>4, <1>6, <2>1 DEF Distinct
  <2> QED
    BY <2>2, Zenon DEF RemoveAt, a, b, t

-----------------------------------------------------------------------------
(* The types, one step per action.                                         *)

\* The initial states satisfy the inductive invariant.
LEMMA InitIInv == Init => IInv
<1> SUFFICES ASSUME Init
             PROVE  IInv
  OBVIOUS
<1>1. TypeOK
  <2>1. Nothing \in Held
    BY DEF Held, Nothing
  <2>2. bans \in Seq(Users) /\ \A i, j \in DOMAIN bans : bans[i] = bans[j] => i = j
    BY DEF Init
  <2> QED
    BY <2>1, <2>2 DEF Init, TypeOK, Phases
<1>2. TableInv /\ NameInv /\ HeldInv
  BY DEF Init, TableInv, NameInv, HeldInv
<1>3. UniqueInv /\ RegisterInv /\ RankingInv /\ FirstInv
  BY DEF Init, UniqueInv, RegisterInv, RankingInv, FirstInv
<1>4. SessionHasAccount /\ FounderStays
  BY DEF Init, SessionHasAccount, FounderStays, Proven
<1> QED
  BY <1>1, <1>2, <1>3, <1>4 DEF IInv, SafeInv

\* Every step of a task, or around it, keeps the types.
LEMMA TaskType ==
    ASSUME IInv, NEW c \in Conns, TaskStep(c)
    PROVE  TypeOK'
<1> USE NoneAssumption DEF IInv, SafeInv, TypeOK, Phases, AwaitPhases, Held, Nothing, Between,
        Goto, Leave, RemoveEntries, Touch, set_password, set_role, storeVars, connVars,
        Ranks, User, Owner, NameInv, HeldInv
<1>1. ASSUME NEW u \in Users, CheckName(c, u)
      PROVE  TypeOK'
  BY <1>1 DEF CheckName
<1>2. CASE StoreName(c)
  BY <1>2 DEF StoreName
<1>3. CASE GoRegister(c)
  BY <1>3 DEF GoRegister
<1>4. CASE GoLogin(c)
  BY <1>4 DEF GoLogin
<1>5. ASSUME NEW w \in Words, CountUsers(c, w)
      PROVE  TypeOK'
  <2> DEFINE r == IF entries = {} THEN Owner ELSE User
             h == [Nothing EXCEPT !.word = w, !.role = r]
  <2>1. r \in Ranks /\ h \in Held
    <3>1. r \in Ranks
      OBVIOUS
    <3> HIDE DEF r
    <3> QED
      BY <3>1
  <2>2. task' = [task EXCEPT ![c] = "setpass"] /\ held' = [held EXCEPT ![c] = h]
    BY <1>5 DEF CountUsers
  <2> QED
    BY <1>5, <2>1, <2>2 DEF CountUsers
<1>6. ASSUME NEW w \in Words, ReadHash(c, w)
      PROVE  TypeOK'
  BY <1>6 DEF ReadHash
<1>7. CASE AddPassword(c)
  <2>1. [held[c] EXCEPT !.word = None] \in Held
    OBVIOUS
  <2>2. uname[c] \in Users /\ held[c].word \in Words
    BY <1>7 DEF AddPassword
  <2> QED
    BY <1>7, <2>1, <2>2 DEF AddPassword
<1>8. CASE AddRole(c)
  BY <1>8 DEF AddRole
<1>9. CASE AddFields(c)
  BY <1>9 DEF AddFields
<1>10. CASE CheckBan(c)
  BY <1>10 DEF CheckBan
<1>11. CASE Verified(c)
  BY <1>11 DEF Verified
<1>12. CASE Refuse(c)
  BY <1>12 DEF Refuse
<1>13. CASE ReadRole(c)
  <2> DEFINE r == IF role[uname[c]] = None THEN User ELSE role[uname[c]]
  <2>1. uname[c] \in Users
    BY <1>13 DEF ReadRole
  <2>2. r \in Ranks
    BY <2>1
  <2>3. /\ task' = [task EXCEPT ![c] = "admit"]
        /\ held' = [held EXCEPT ![c] = [Nothing EXCEPT !.latch = r]]
    BY <1>13 DEF ReadRole
  <2> HIDE DEF r
  <2>4. [Nothing EXCEPT !.latch = r] \in Held
    BY <2>2
  <2> QED
    BY <1>13, <2>3, <2>4 DEF ReadRole
<1>14. CASE Admit(c)
  BY <1>14 DEF Admit
<1>15. CASE Receive(c)
  BY <1>15 DEF Receive
<1>16. CASE RereadRole(c)
  <2> DEFINE r == IF c \in conns /\ live[c] # None THEN live[c] ELSE held[c].latch
  <2>1. r \in Ranks
    BY <1>16 DEF RereadRole
  <2>2. /\ task' = [task EXCEPT ![c] = "packet"]
        /\ held' = [held EXCEPT ![c] = [held[c] EXCEPT !.rank = r]]
    BY <1>16 DEF RereadRole
  <2> HIDE DEF r
  <2>3. [held[c] EXCEPT !.rank = r] \in Held
    BY <2>1
  <2>4. held' \in [Conns -> Held] /\ task' \in [Conns -> Phases]
    BY <2>2, <2>3
  <2> QED
    BY <1>16, <2>4 DEF RereadRole
<1>17. CASE Ignore(c)
  BY <1>17 DEF Ignore
<1>18. ASSUME NEW u \in Users, NEW r \in Ranks, AskRole(c, u, r)
       PROVE  TypeOK'
  BY <1>18 DEF AskRole
<1>19. ASSUME NEW u \in Users, AskBan(c, u)
       PROVE  TypeOK'
  <2>1. PICK d \in Conns \cup {None} :
          Goto(c, "ban", [Between(c) EXCEPT !.user = u, !.conn = d])
    BY <1>19 DEF AskBan, SessionsOf
  <2> QED
    BY <1>19, <2>1 DEF AskBan
<1>20. ASSUME NEW i \in DOMAIN bans, Pardon(c, i)
       PROVE  TypeOK'
  <2>1. bans' \in Seq(Users) /\ Distinct(bans)'
    BY <1>20, PardonDistinct DEF Pardon, Distinct
  <2> QED
    BY <1>20, <2>1 DEF Pardon, Distinct
<1>21. CASE StoreRole(c)
  BY <1>21 DEF StoreRole
<1>22. CASE ApplyRole(c)
  BY <1>22 DEF ApplyRole, SessionsOf
<1>23. CASE StoreBan(c)
  <2>1. bans' \in Seq(Users) /\ Distinct(bans)'
    <3>1. CASE banned(held[c].user)
      BY <1>23, <3>1 DEF StoreBan, Distinct
    <3>2. CASE ~banned(held[c].user)
      <4>1. bans' = Append(bans, held[c].user) /\ held[c].user \in Users
        BY <1>23, <3>2 DEF StoreBan
      <4>2. Distinct(bans) /\ \A i \in DOMAIN bans : bans[i] # held[c].user
        BY <3>2 DEF Distinct, banned
      <4> HIDE DEF IInv
      <4> QED
        BY <4>1, <4>2, BanDistinct DEF IInv, TypeOK, Distinct
    <3> QED
      BY <3>1, <3>2
  <2> QED
    BY <1>23, <2>1 DEF StoreBan, Distinct
<1>24. CASE Evict(c)
  BY <1>24 DEF Evict
<1>25. ASSUME NEW old \in Words, NEW new \in Words, AskPasswd(c, old, new)
       PROVE  TypeOK'
  BY <1>25 DEF AskPasswd
<1>26. ASSUME NEW w \in Words, AskDelete(c, w)
       PROVE  TypeOK'
  BY <1>26 DEF AskDelete
<1>27. CASE StorePasswd(c)
  BY <1>27 DEF StorePasswd
<1>28. CASE RemoveAccount(c)
  BY <1>28 DEF RemoveAccount
<1>29. CASE Close(c)
  BY <1>29 DEF Close
<1>30. CASE WriteField(c)
  BY <1>30 DEF WriteField
<1>31. CASE AvatarLands(c)
  BY <1>31 DEF AvatarLands, SessionPhases
<1>32. CASE Lose(c)
  BY <1>32 DEF Lose
<1>33. CASE End(c)
  BY <1>33 DEF End
<1> QED
  BY <1>1, <1>2, <1>3, <1>4, <1>5, <1>6, <1>7, <1>8, <1>9, <1>10, <1>11, <1>12,
     <1>13, <1>14, <1>15, <1>16, <1>17, <1>18, <1>19, <1>20, <1>21, <1>22,
     <1>23, <1>24, <1>25, <1>26, <1>27, <1>28, <1>29, <1>30, <1>31, <1>32, <1>33
     DEF TaskStep, LoginStep, LoopStep, RankStep, AccountStep, OuterStep

-----------------------------------------------------------------------------
(* The rest of the invariant, one step per action.                         *)

\* Every step of a task, or around it, keeps what the proofs are about.
LEMMA TaskSafe ==
    ASSUME IInv, NEW c \in Conns, TaskStep(c)
    PROVE  SafeInv'
<1> USE NoneAssumption DEF IInv, TypeOK, Phases, AwaitPhases, Held, Nothing, Between,
        Goto, Leave, RemoveEntries, Touch, set_password, set_role, storeVars, connVars,
        Ranks, User, Owner, TableInv, NameInv, HeldInv, UniqueInv, RegisterInv,
        RankingInv, FirstInv, SessionHasAccount, FounderStays, Proven, SafeInv
<1>1. ASSUME NEW u \in Users, CheckName(c, u)
      PROVE  SafeInv'
  <2>1. NameInv' /\ HeldInv' /\ TableInv'
    BY <1>1 DEF CheckName
  <2>2. ~clashed' => UniqueInv'
    <3>1. ~clashed' => ~clashed /\ \A d \in Conns \ {c} : uname[d] # u
      BY <1>1, Zenon DEF CheckName
    <3>2. uname' = [uname EXCEPT ![c] = u]
      BY <1>1 DEF CheckName
    <3> QED
      BY <3>1, <3>2
  <2>3. ~clashed' => RegisterInv' /\ RankingInv' /\ FirstInv'
    BY <1>1 DEF CheckName
  <2>4. SessionHasAccount' /\ FounderStays'
    BY <1>1 DEF CheckName
  <2> QED
    BY <2>1, <2>2, <2>3, <2>4
<1>2. CASE StoreName(c)
  BY <1>2 DEF StoreName
<1>3. CASE GoRegister(c)
  BY <1>3 DEF GoRegister
<1>4. CASE GoLogin(c)
  BY <1>4 DEF GoLogin
<1>5. ASSUME NEW w \in Words, CountUsers(c, w)
      PROVE  SafeInv'
  <2>1. ASSUME ~clashed, entries = {}
        PROVE  \A d \in Conns : task[d] # "grant"
    BY <2>1 \* whoever ranks has an account
  <2>2. FirstInv' \/ clashed'
    BY <1>5, <2>1 DEF CountUsers
  <2>3. TableInv' /\ NameInv' /\ HeldInv' /\ SessionHasAccount' /\ FounderStays'
    BY <1>5 DEF CountUsers
  <2>4. ~clashed' => UniqueInv' /\ RegisterInv' /\ RankingInv'
    BY <1>5 DEF CountUsers
  <2> QED
    BY <2>2, <2>3, <2>4
<1>6. ASSUME NEW w \in Words, ReadHash(c, w)
      PROVE  SafeInv'
  BY <1>6 DEF ReadHash
<1>7. CASE AddPassword(c)
  BY <1>7 DEF AddPassword
<1>8. CASE AddRole(c)
  <2>1. ~clashed' => RankingInv' \* FirstInv: no task holds the new founder
    BY <1>8 DEF AddRole
  <2>2. FounderStays'
    BY <1>8 DEF AddRole
  <2>3. TableInv' /\ NameInv' /\ HeldInv' /\ SessionHasAccount'
    BY <1>8 DEF AddRole
  <2>4. ~clashed' => UniqueInv' /\ RegisterInv' /\ FirstInv'
    BY <1>8 DEF AddRole
  <2> QED
    BY <2>1, <2>2, <2>3, <2>4
<1>9. CASE AddFields(c)
  BY <1>9 DEF AddFields
<1>10. CASE CheckBan(c)
  BY <1>10 DEF CheckBan
<1>11. CASE Verified(c)
  BY <1>11 DEF Verified
<1>12. CASE Refuse(c)
  BY <1>12 DEF Refuse
<1>13. CASE ReadRole(c)
  BY <1>13 DEF ReadRole
<1>14. CASE Admit(c)
  BY <1>14 DEF Admit
<1>15. CASE Receive(c)
  BY <1>15 DEF Receive
<1>16. CASE RereadRole(c)
  BY <1>16 DEF RereadRole
<1>17. CASE Ignore(c)
  BY <1>17 DEF Ignore
<1>18. ASSUME NEW u \in Users, NEW r \in Ranks, AskRole(c, u, r)
       PROVE  SafeInv'
  <2>1. ~clashed => u \notin founders \* a founder is an owner, and so a peer
    BY <1>18 DEF AskRole
  <2>2. ~clashed' => RankingInv' /\ FirstInv'
    BY <1>18, <2>1 DEF AskRole
  <2>3. TableInv' /\ NameInv' /\ HeldInv' /\ SessionHasAccount' /\ FounderStays'
    BY <1>18 DEF AskRole
  <2>4. ~clashed' => UniqueInv' /\ RegisterInv'
    BY <1>18 DEF AskRole
  <2> QED
    BY <2>2, <2>3, <2>4
<1>19. ASSUME NEW u \in Users, AskBan(c, u)
       PROVE  SafeInv'
  BY <1>19 DEF AskBan, SessionsOf
<1>20. ASSUME NEW i \in DOMAIN bans, Pardon(c, i)
       PROVE  SafeInv'
  BY <1>20 DEF Pardon
<1>21. CASE StoreRole(c)
  BY <1>21 DEF StoreRole
<1>22. CASE ApplyRole(c)
  BY <1>22 DEF ApplyRole, SessionsOf
<1>23. CASE StoreBan(c)
  BY <1>23 DEF StoreBan
<1>24. CASE Evict(c)
  BY <1>24 DEF Evict
<1>25. ASSUME NEW old \in Words, NEW new \in Words, AskPasswd(c, old, new)
       PROVE  SafeInv'
  BY <1>25 DEF AskPasswd
<1>26. ASSUME NEW w \in Words, AskDelete(c, w)
       PROVE  SafeInv'
  BY <1>26 DEF AskDelete
<1>27. CASE StorePasswd(c)
  BY <1>27 DEF StorePasswd
<1>28. CASE RemoveAccount(c)
  <2>1. SessionHasAccount' \* no other task serves the name
    BY <1>28 DEF RemoveAccount
  <2>2. TableInv' /\ NameInv' /\ HeldInv' /\ FounderStays'
    BY <1>28 DEF RemoveAccount
  <2>3. ~clashed' => UniqueInv' /\ RegisterInv' /\ RankingInv' /\ FirstInv'
    BY <1>28 DEF RemoveAccount
  <2> QED
    BY <2>1, <2>2, <2>3
<1>29. CASE Close(c)
  BY <1>29 DEF Close
<1>30. CASE WriteField(c)
  BY <1>30 DEF WriteField
<1>31. CASE AvatarLands(c)
  BY <1>31 DEF AvatarLands, SessionPhases
<1>32. CASE Lose(c)
  BY <1>32 DEF Lose
<1>33. CASE End(c)
  BY <1>33 DEF End
<1> QED
  BY <1>1, <1>2, <1>3, <1>4, <1>5, <1>6, <1>7, <1>8, <1>9, <1>10, <1>11, <1>12,
     <1>13, <1>14, <1>15, <1>16, <1>17, <1>18, <1>19, <1>20, <1>21, <1>22,
     <1>23, <1>24, <1>25, <1>26, <1>27, <1>28, <1>29, <1>30, <1>31, <1>32, <1>33
     DEF TaskStep, LoginStep, LoopStep, RankStep, AccountStep, OuterStep

\* After a restart no task remembers anything.
LEMMA RestartIInv == IInv /\ Restart => IInv'
  BY NoneAssumption DEF IInv, SafeInv, TypeOK, Restart, RemoveEntries, Phases, Held, Nothing,
     Ranks, storeVars, TableInv, NameInv, HeldInv, UniqueInv, RegisterInv, RankingInv,
     FirstInv, SessionHasAccount, FounderStays, Proven

\* Every step keeps the inductive invariant.
LEMMA NextIInv == IInv /\ [Next]_vars => IInv'
<1> SUFFICES ASSUME IInv, [Next]_vars
             PROVE  IInv'
  OBVIOUS
<1>1. CASE UNCHANGED vars
  BY <1>1 DEF vars, IInv, SafeInv, TypeOK, TableInv, NameInv, HeldInv, UniqueInv, RegisterInv,
     RankingInv, FirstInv, SessionHasAccount, FounderStays
<1>2. CASE Restart
  BY <1>2, RestartIInv
<1>3. ASSUME NEW c \in Conns, TaskStep(c)
      PROVE  IInv'
  BY <1>3, TaskType, TaskSafe DEF IInv
<1> QED
  BY <1>1, <1>2, <1>3 DEF Next, TaskStep

\* The inductive invariant holds of every behaviour of the specification.
THEOREM Accounting == Spec => []IInv
  BY InitIInv, NextIInv, PTL DEF Spec

\* The account store, the ban list (each subject once) and the tasks keep
\* their types.
THEOREM TypeCorrect == Spec => []TypeOK
<1>1. IInv => TypeOK
  BY DEF IInv
<1> QED
  BY <1>1, Accounting, PTL

\* While no two tasks have served one name, whoever logged in or registered
\* has an account with a password (listen_client, users::remove).
THEOREM Accounted == Spec => []SessionHasAccount
<1>1. IInv => SessionHasAccount
  BY DEF IInv, SafeInv
<1> QED
  BY <1>1, Accounting, PTL

\* While no two tasks have served one name, the first user stays owner until
\* the account is deleted (users::add, the handler of ServerRoleRequest).
THEOREM FirstOwner == Spec => []FounderStays
<1>1. IInv => FounderStays
  BY DEF IInv, SafeInv
<1> QED
  BY <1>1, Accounting, PTL

\* While no two tasks have served one name, a password is replaced only by
\* the change its user asked for (users::add, AccountPasswdRequest).
THEOREM NewAccounts == Spec => RegistrationIsNew
<1> DEFINE Kept == ~clashed => \A u \in Users :
                     password[u] # None /\ password'[u] \notin {None, password[u]}
                       => \E c \in Conns : task[c] = "rehash" /\ uname[c] = u
<1>1. IInv /\ [Next]_vars => [Kept]_vars
  <2> SUFFICES ASSUME IInv, Next, ~clashed, NEW u \in Users,
                      password[u] # None, password'[u] \notin {None, password[u]}
               PROVE  \E c \in Conns : task[c] = "rehash" /\ uname[c] = u
    BY DEF vars
  <2>1. ~Restart
    BY DEF Restart, storeVars
  <2>2. PICK c \in Conns : TaskStep(c)
    BY <2>1 DEF Next, TaskStep
  <2>3. AddPassword(c) \/ StorePasswd(c) \/ RemoveAccount(c)
    <3>1. CASE LoginStep(c)
      BY <3>1 DEF LoginStep, CheckName, StoreName, GoRegister, GoLogin, CountUsers, ReadHash,
         AddRole, AddFields, CheckBan, Verified, Refuse, ReadRole, Admit, storeVars
    <3>2. CASE LoopStep(c) \/ OuterStep(c)
      BY <3>2 DEF LoopStep, OuterStep, Receive, RereadRole, Ignore, AvatarLands, Lose, End,
         storeVars
    <3>3. CASE RankStep(c)
      BY <3>3 DEF RankStep, AskRole, AskBan, Pardon, StoreRole, ApplyRole, StoreBan, Evict,
         storeVars
    <3>4. CASE AccountStep(c)
      BY <3>4 DEF AccountStep, AskPasswd, AskDelete, Close, WriteField, storeVars
    <3> QED
      BY <2>2, <3>1, <3>2, <3>3, <3>4 DEF TaskStep
  <2>4. ~RemoveAccount(c)
    BY DEF RemoveAccount, IInv, TypeOK
  <2>5. ~AddPassword(c)
    BY DEF AddPassword, set_password, IInv, SafeInv, TypeOK, RegisterInv
  <2>6. StorePasswd(c)
    BY <2>3, <2>4, <2>5
  <2> QED
    BY <2>6 DEF StorePasswd, set_password, IInv, TypeOK
<1> QED
  BY <1>1, Accounting, PTL DEF Spec, RegistrationIsNew

=============================================================================
