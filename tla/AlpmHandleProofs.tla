--------------------------- MODULE AlpmHandleProofs ---------------------------
(***************************************************************************)
(* What the signatures of nyx_alpm promise, for any number of threads,     *)
(* Handles, repositories and views: theorems about AlpmHandle.             *)
(***************************************************************************)
EXTENDS AlpmHandle, TLAPS

\* All that a view borrows is open and in one thread, its database included.
Tied ==
  \A v \in views :
    /\ HandleOf(v) \in v.borrows
    /\ \A h \in v.borrows : life[h] = "open" /\ owner[h] = owner[HandleOf(v)]

\* A thread inside a method has the Handle and every view it gave to it.
Within ==
  \A t \in Threads : call[t] # Idle => Has(t, call[t].handle) /\ call[t].args \subseteq Held(t)

\* From the failure to the return the context's errno is this call's.
Told ==
  \A t \in Threads :
    call[t] # Idle /\ call[t].rc < 0 =>
      call[t].at = "wrapper" /\ errno[call[t].handle] = call[t].cause

\* Views a thread may be given: all they borrow is open and its own.
Lawful(t, new) ==
  /\ new \subseteq View
  /\ \A v \in new : /\ HandleOf(v) \in v.borrows
                    /\ \A h \in v.borrows : life[h] = "open" /\ owner[h] = t

IInv == TypeOK /\ Tied /\ Within /\ Told /\ ErrIsOwn

--------------------------------------------------------------------------------
(* Facts about states                                                          *)

\* A thread is in a method or it is not.
LEMMA CallShape ==
  ASSUME TypeOK, NEW t \in Threads, call[t] # Idle
  PROVE  call[t] \in InMethod
BY DEF TypeOK

\* What is at work in libalpm or in a wrapper is a method.
LEMMA AtMethod ==
  ASSUME TypeOK, NEW t \in Threads, call[t].at \in {"libalpm", "wrapper"}
  PROVE  call[t] # Idle
BY DEF Idle

\* A view has a database of a Handle.
LEMMA ViewShape ==
  ASSUME NEW v \in View
  PROVE  v.db \in Databases /\ HandleOf(v) \in Handles /\ v.borrows \subseteq Handles
BY DEF View, Databases, HandleOf

\* A Package made from a view is a view of the same database.
LEMMA PkgViewShape ==
  ASSUME TypeOK, NEW v \in View, NEW h \in Handles
  PROVE  /\ PkgView(v, h) \in View
         /\ HandleOf(PkgView(v, h)) = HandleOf(v)
         /\ PkgView(v, h).borrows = v.borrows \cup {h}
<1>1. cache[v.db] \in Nat
  BY ViewShape, AlpmHandleAssumption DEF TypeOK
<1> QED BY <1>1 DEF PkgView, View, HandleOf

\* A Db made from a Handle is a view of one of its databases.
LEMMA DbViewShape ==
  ASSUME TypeOK, NEW h \in Handles, NEW r \in Repos \cup {Local}, NEW unique \in BOOLEAN
  PROVE  /\ DbView(h, r, unique) \in View
         /\ HandleOf(DbView(h, r, unique)) = h
         /\ DbView(h, r, unique).borrows = {h}
<1>1. cache[<<h, r>>] \in Nat
  BY AlpmHandleAssumption DEF TypeOK, Databases
<1> QED BY <1>1 DEF DbView, View, HandleOf, Databases

--------------------------------------------------------------------------------
(* Steps                                                                       *)

\* Init gives no Handle, no view and no call.
LEMMA InitInv == Init => IInv
<1> SUFFICES ASSUME Init PROVE IInv
  OBVIOUS
<1>1. TypeOK
  BY AlpmHandleAssumption DEF Init, TypeOK, Databases
<1>2. Tied /\ Within /\ Told
  BY DEF Init, Tied, Within, Told
<1>3. ErrIsOwn
  BY DEF Init, ErrIsOwn
<1> QED BY <1>1, <1>2, <1>3 DEF IInv

\* What the program has looked at says nothing any more.
LEMMA DoneErr ==
  ASSUME TypeOK, ErrIsOwn, NEW t \in Threads, Done(t)
  PROVE  ErrIsOwn' /\ result' \in [Threads -> Returned \cup {Nothing}]
BY DEF TypeOK, ErrIsOwn, Done

\* Without a Handle only the answer is new, and the errno in it is the one
\* alpm_initialize gave.
LEMMA InitializeFailsInv ==
  ASSUME IInv, NEW t \in Threads, NEW rc \in {-1, 0}, NEW e \in Errors \cup {NoError},
         InitializeFails(t, rc, e)
  PROVE  IInv'
<1> DEFINE answer == [method |-> Initializer, value |-> "Err", rc |-> rc,
                      errno |-> IF rc < 0 THEN e ELSE Invalid, cause |-> e]
<1>1. result' = [result EXCEPT ![t] = answer] /\ UNCHANGED <<ctx, views, call>>
  BY DEF InitializeFails
<1>2. answer \in Returned
  BY DEF Returned
<1>3. answer.errno = IF answer.rc < 0 THEN answer.cause ELSE Invalid
  OBVIOUS
<1> HIDE DEF answer
<1>4. TypeOK'
  BY <1>1, <1>2 DEF IInv, TypeOK, ctx
<1>5. Tied' /\ Within' /\ Told'
  BY <1>1 DEF IInv, Tied, Within, Told, Has, Held, ctx
<1>6. ErrIsOwn'
  BY <1>1, <1>3 DEF IInv, ErrIsOwn, TypeOK
<1> QED BY <1>4, <1>5, <1>6 DEF IInv

\* A new Handle is nobody's yet.
LEMMA InitializeInv ==
  ASSUME IInv, NEW t \in Threads, NEW h \in Handles, Initialize(t, h)
  PROVE  IInv'
<1>1. CASE InitializeFails(t, 0, NoError) \/ \E e \in Errors : InitializeFails(t, -1, e)
  BY <1>1, InitializeFailsInv
<1>2. CASE ~(InitializeFails(t, 0, NoError) \/ \E e \in Errors : InitializeFails(t, -1, e))
  <2>1. /\ life[h] = "none" /\ life' = [life EXCEPT ![h] = "open"]
        /\ owner' = [owner EXCEPT ![h] = t]
        /\ UNCHANGED <<registered, errno, cache, views, call>> /\ Done(t)
    BY <1>2 DEF Initialize
  <2>2. ErrIsOwn' /\ result' \in [Threads -> Returned \cup {Nothing}]
    BY <2>1, DoneErr DEF IInv
  <2>3. TypeOK'
    BY <2>1, <2>2 DEF IInv, TypeOK
  <2>4. \A g \in Handles : life[g] = "open" => life'[g] = "open" /\ owner'[g] = owner[g]
    BY <2>1 DEF IInv, TypeOK
  <2>5. \A v \in views : HandleOf(v) \in Handles /\ v.borrows \subseteq Handles
    BY ViewShape DEF IInv, TypeOK
  <2>6. Tied'
    BY <2>1, <2>4, <2>5 DEF IInv, Tied
  <2>7. \A u \in Threads : Held(u) \subseteq Held(u)'
    BY <2>1, <2>4, <2>5 DEF Held, IInv, Tied
  <2>8. Within'
    BY <2>1, <2>4, <2>7, CallShape DEF IInv, Within, Has, InMethod
  <2>9. Told'
    BY <2>1 DEF IInv, Told
  <2> QED BY <2>2, <2>3, <2>6, <2>8, <2>9 DEF IInv
<1> QED BY <1>1, <1>2

\* A Handle goes, or goes to another thread, when nothing borrows it.
LEMMA MutInv ==
  ASSUME IInv, NEW t \in Threads, NEW h \in Handles, Release(t, h) \/ \E u \in Threads : Move(t, h, u)
  PROVE  IInv'
<1>1. /\ Mut(t, h) /\ Done(t)
      /\ UNCHANGED <<registered, errno, cache, views, call>>
  BY DEF Release, Move
<1>2. /\ life' \in [Handles -> {"none", "open", "released"}]
      /\ owner' \in [Handles -> Threads \cup {Nobody}]
      /\ \A g \in Handles \ {h} : life'[g] = life[g] /\ owner'[g] = owner[g]
  BY DEF Release, Move, IInv, TypeOK
<1>3. ErrIsOwn' /\ result' \in [Threads -> Returned \cup {Nothing}]
  BY <1>1, DoneErr DEF IInv
<1>4. TypeOK'
  BY <1>1, <1>2, <1>3 DEF IInv, TypeOK
<1>5. \A v \in views : /\ HandleOf(v) \in Handles \ {h}
                       /\ v.borrows \subseteq Handles \ {h}
  BY <1>1, ViewShape DEF IInv, TypeOK, Tied, Mut, Borrowers
<1>6. Tied'
  BY <1>1, <1>2, <1>5 DEF IInv, Tied
<1>7. \A u \in Threads : Held(u)' = Held(u)
  BY <1>1, <1>2, <1>5 DEF Held
<1>8. \A u \in Threads : call[u] # Idle => call[u].handle \in Handles \ {h}
  <2> SUFFICES ASSUME NEW u \in Threads, call[u] # Idle PROVE call[u].handle \in Handles \ {h}
    OBVIOUS
  <2>1. call[u].handle \in Handles
    BY CallShape DEF IInv, InMethod
  <2>2. u # t /\ owner[h] = t
    BY <1>1 DEF Mut, Free, Has
  <2>3. owner[call[u].handle] = u
    BY DEF IInv, Within, Has
  <2> QED BY <2>1, <2>2, <2>3
<1>9. Within'
  BY <1>1, <1>2, <1>7, <1>8 DEF IInv, Within, Has
<1>10. Told'
  BY <1>1 DEF IInv, Told
<1> QED BY <1>3, <1>4, <1>6, <1>9, <1>10 DEF IInv

\* A view that goes is of no use to any call: its thread is in none.
LEMMA ForgetInv ==
  ASSUME IInv, NEW t \in Threads, NEW v \in Held(t), Forget(t, v)
  PROVE  IInv'
<1>1. /\ Free(t) /\ views' = views \ {v} /\ owner[HandleOf(v)] = t
      /\ UNCHANGED <<ctx, call>>
  BY DEF Forget, Held
<1>2. ErrIsOwn' /\ result' \in [Threads -> Returned \cup {Nothing}]
  BY DoneErr DEF IInv, Forget
<1>3. TypeOK'
  BY <1>1, <1>2 DEF IInv, TypeOK, ctx
<1>4. Tied'
  BY <1>1 DEF IInv, Tied, ctx
<1>5. \A u \in Threads : u # t => Held(u)' = Held(u)
  BY <1>1 DEF Held, ctx
<1>6. Within'
  BY <1>1, <1>5 DEF IInv, Within, Has, Free, ctx
<1>7. Told'
  BY <1>1 DEF IInv, Told, ctx
<1> QED BY <1>2, <1>3, <1>4, <1>6, <1>7 DEF IInv

\* A method is entered by the thread that has its Handle and its arguments.
LEMMA EnterInv ==
  ASSUME IInv, NEW t \in Threads, NEW m \in Methods, NEW h \in Handles, NEW r \in Repos,
         NEW args \in SUBSET Held(t), Has(t, h), Enter(t, m, h, r, args)
  PROVE  IInv'
<1> DEFINE c == [at |-> "libalpm", method |-> m, handle |-> h, repo |-> r,
                 args |-> args, rc |-> 0, cause |-> NoError]
<1>1. call' = [call EXCEPT ![t] = c] /\ UNCHANGED <<ctx, views>>
  BY DEF Enter
<1>2. ErrIsOwn' /\ result' \in [Threads -> Returned \cup {Nothing}]
  BY DoneErr DEF IInv, Enter
<1>3. c \in InMethod
  BY DEF InMethod, Held, IInv, TypeOK
<1>4. TypeOK'
  BY <1>1, <1>2, <1>3 DEF IInv, TypeOK, ctx
<1>5. Tied'
  BY <1>1 DEF IInv, Tied, ctx
<1>6. \A u \in Threads : Held(u)' = Held(u)
  BY <1>1 DEF Held, ctx
<1>7. call'[t] = c /\ \A u \in Threads \ {t} : call'[u] = call[u]
  BY <1>1 DEF IInv, TypeOK
<1>8. Within'
  BY <1>1, <1>6, <1>7 DEF IInv, Within, Has, ctx
<1>9. Told'
  BY <1>1, <1>7 DEF IInv, Told, ctx
<1> QED BY <1>2, <1>4, <1>5, <1>8, <1>9 DEF IInv

\* A refresh counts, within its bound.
LEMMA RefreshType ==
  ASSUME TypeOK, NEW dbs, Refresh(dbs)
  PROVE  cache' \in [Databases -> 0 .. MaxRefresh]
BY AlpmHandleAssumption DEF TypeOK, Refresh

\* Success leaves who has what, and a code that is not negative.
LEMMA SucceedInv ==
  ASSUME IInv, NEW t \in Threads, Succeed(t)
  PROVE  IInv'
<1> DEFINE c == call[t]
<1>1. /\ c.at = "libalpm"
      /\ call' = [call EXCEPT ![t].at = "wrapper"] \/ call' = [call EXCEPT ![t].at = "wrapper", ![t].rc = 1]
      /\ UNCHANGED <<life, owner, errno, views, result>>
  BY DEF Succeed
<1>2. c # Idle /\ c \in InMethod
  BY <1>1, AtMethod, CallShape DEF IInv
<1>3. c.rc >= 0
  BY <1>1, <1>2 DEF IInv, Told, InMethod
<1>4. /\ \A u \in Threads \ {t} : call'[u] = call[u]
      /\ call'[t] \in InMethod /\ call'[t].rc >= 0
      /\ call'[t].handle = c.handle /\ call'[t].args = c.args
  BY <1>1, <1>2, <1>3 DEF IInv, TypeOK, InMethod
<1>5. cache' \in [Databases -> 0 .. MaxRefresh]
  BY RefreshType DEF IInv, TypeOK, Succeed
<1>6. registered' \in [Handles -> SUBSET Repos]
  BY <1>2 DEF IInv, TypeOK, Succeed, InMethod
<1>7. TypeOK'
  <2>1. call' \in [Threads -> InMethod \cup {Idle}]
    BY <1>1, <1>4 DEF IInv, TypeOK
  <2> QED BY <1>1, <1>5, <1>6, <2>1 DEF IInv, TypeOK
<1>8. Tied' /\ ErrIsOwn'
  BY <1>1 DEF IInv, Tied, ErrIsOwn
<1>9. Within'
  BY <1>1, <1>2, <1>4 DEF IInv, Within, Has, Held
<1>10. Told'
  BY <1>1, <1>2, <1>4 DEF IInv, Told, InMethod
<1> QED BY <1>7, <1>8, <1>9, <1>10 DEF IInv

\* A failure writes the errno of a context that no other call is using.
LEMMA FailInv ==
  ASSUME IInv, NEW t \in Threads, NEW e \in Errors, Fail(t, e)
  PROVE  IInv'
<1> DEFINE c == call[t]
<1>1. /\ c.at = "libalpm"
      /\ call' = [call EXCEPT ![t].at = "wrapper", ![t].rc = -1, ![t].cause = e]
      /\ errno' = [errno EXCEPT ![c.handle] = e]
      /\ UNCHANGED <<life, owner, registered, views, result>>
  BY DEF Fail
<1>2. c # Idle /\ c \in InMethod
  BY <1>1, AtMethod, CallShape DEF IInv
<1>3. /\ \A u \in Threads \ {t} : call'[u] = call[u]
      /\ call'[t] \in InMethod /\ call'[t].at = "wrapper" /\ call'[t].cause = e
      /\ call'[t].handle = c.handle /\ call'[t].args = c.args
  BY <1>1, <1>2 DEF IInv, TypeOK, InMethod
<1>4. cache' \in [Databases -> 0 .. MaxRefresh]
  BY RefreshType DEF IInv, TypeOK, Fail
<1>5. TypeOK'
  <2>1. call' \in [Threads -> InMethod \cup {Idle}]
    BY <1>1, <1>3 DEF IInv, TypeOK
  <2>2. errno' \in [Handles -> Errors \cup {NoError}]
    BY <1>1 DEF IInv, TypeOK
  <2> QED BY <1>1, <1>4, <2>1, <2>2 DEF IInv, TypeOK
<1>6. Tied' /\ ErrIsOwn'
  BY <1>1 DEF IInv, Tied, ErrIsOwn
<1>7. Within'
  <2>1. /\ \A u \in Threads : Held(u)' = Held(u)
        /\ \A u \in Threads, h \in Handles : Has(u, h)' <=> Has(u, h)
    BY <1>1 DEF Held, Has
  <2>2. \A u \in Threads :
          call'[u] # Idle => /\ call[u] # Idle /\ call[u].handle \in Handles
                             /\ call'[u].handle = call[u].handle /\ call'[u].args = call[u].args
    BY <1>2, <1>3, CallShape DEF IInv, InMethod
  <2> QED BY <2>1, <2>2 DEF IInv, Within
<1>8. Told'
  <2> SUFFICES ASSUME NEW u \in Threads, call'[u] # Idle, call'[u].rc < 0
               PROVE  call'[u].at = "wrapper" /\ errno'[call'[u].handle] = call'[u].cause
    BY DEF Told
  <2>1. CASE u = t
    <3>1. c.handle \in Handles /\ errno'[c.handle] = e
      BY <1>1, <1>2 DEF IInv, TypeOK, InMethod
    <3> QED BY <1>3, <2>1, <3>1
  <2>2. CASE u # t
    <3>1. call'[u] = call[u]
      BY <1>3, <2>2
    <3>2. owner[call[u].handle] = u /\ owner[c.handle] = t
      BY <1>2, <3>1 DEF IInv, Within, Has
    <3>3. call[u].handle \in Handles
      BY <3>1, CallShape DEF IInv, InMethod
    <3>4. errno'[call[u].handle] = errno[call[u].handle]
      BY <1>1, <2>2, <3>2, <3>3 DEF IInv, TypeOK
    <3> QED BY <3>1, <3>4 DEF IInv, Told
  <2> QED BY <2>1, <2>2
<1> QED BY <1>5, <1>6, <1>7, <1>8 DEF IInv

\* A return gives views of what the thread has; an Err has the call's errno,
\* or Invalid when libalpm was not asked; search is left out.
LEMMA ReturnInv ==
  ASSUME IInv, NEW t \in Threads, NEW m \in Methods, NEW value \in {"Ok", "Err", "None"},
         NEW e \in Errors \cup {NoError, Invalid}, Return(t, m, value, e),
         NEW new, Lawful(t, new), views' = views \cup new,
         value = "Err" /\ m # "search" =>
           e = IF ~Free(t) /\ call[t].rc < 0 THEN call[t].cause ELSE Invalid
  PROVE  IInv'
<1> DEFINE rc == IF Free(t) THEN 0 ELSE call[t].rc
           cause == IF Free(t) THEN NoError ELSE call[t].cause
<1>1. /\ call' = [call EXCEPT ![t] = Idle] /\ UNCHANGED ctx
      /\ result' = [result EXCEPT ![t] = [method |-> m, value |-> value, errno |-> e,
                                         rc |-> rc, cause |-> cause]]
  BY DEF Return
<1>2. rc \in {-1, 0, 1} /\ cause \in Errors \cup {NoError}
  BY CallShape DEF IInv, InMethod, Free
<1>3. TypeOK'
  <2>1. call' \in [Threads -> InMethod \cup {Idle}]
    BY <1>1 DEF IInv, TypeOK
  <2>2. result' \in [Threads -> Returned \cup {Nothing}]
    BY <1>1, <1>2 DEF IInv, TypeOK, Returned
  <2> QED BY <1>1, <2>1, <2>2 DEF IInv, TypeOK, Lawful, ctx
<1>4. Tied'
  BY <1>1 DEF IInv, Tied, Lawful, ctx
<1>5. /\ call'[t] = Idle /\ \A u \in Threads \ {t} : call'[u] = call[u]
      /\ \A u \in Threads : Held(u) \subseteq Held(u)'
  BY <1>1 DEF IInv, TypeOK, Held, ctx
<1>6. Within'
  BY <1>1, <1>5 DEF IInv, Within, Has, ctx
<1>7. Told'
  BY <1>1, <1>5 DEF IInv, Told, ctx
<1>8. ErrIsOwn'
  <2> SUFFICES ASSUME NEW u \in Threads, result'[u] # Nothing, result'[u].value = "Err",
                      result'[u].method # "search"
               PROVE  result'[u].errno = IF result'[u].rc < 0 THEN result'[u].cause ELSE Invalid
    BY DEF ErrIsOwn
  <2>1. CASE u = t
    <3>1. /\ result'[t].method = m /\ result'[t].value = value /\ result'[t].errno = e
          /\ result'[t].rc = rc /\ result'[t].cause = cause
      BY <1>1 DEF IInv, TypeOK
    <3> QED BY <2>1, <3>1
  <2>2. CASE u # t
    <3>1. result'[u] = result[u]
      BY <1>1, <2>2 DEF IInv, TypeOK
    <3> QED BY <3>1 DEF IInv, ErrIsOwn
  <2> QED BY <2>1, <2>2
<1> QED BY <1>3, <1>4, <1>6, <1>7, <1>8 DEF IInv

\* Input that libalpm cannot take is answered without it.
LEMMA EnterUnlessInv ==
  ASSUME IInv, NEW t \in Threads, NEW m \in Methods, NEW h \in Handles, NEW r \in Repos,
         NEW args \in SUBSET Held(t), Free(t), Has(t, h), NEW refusal \in {"Err", "None"},
         EnterUnless(refusal, t, m, h, r, args)
  PROVE  IInv'
<1>1. CASE Enter(t, m, h, r, args)
  BY <1>1, EnterInv
<1>2. CASE ~Enter(t, m, h, r, args)
  <2> DEFINE e == IF refusal = "Err" THEN Invalid ELSE NoError
  <2>1. Return(t, m, refusal, e) /\ views' = views \cup {}
    BY <1>2 DEF EnterUnless
  <2>2. e \in Errors \cup {NoError, Invalid}
    OBVIOUS
  <2> HIDE DEF e
  <2>3. refusal = "Err" => e = Invalid
    BY DEF e
  <2>4. Lawful(t, {})
    BY DEF Lawful
  <2> QED BY <2>1, <2>2, <2>3, <2>4, ReturnInv
<1> QED BY <1>1, <1>2

\* Methods called on a Handle.
LEMMA OnHandleInv ==
  ASSUME IInv, NEW t \in Threads, NEW h \in Handles, OnHandle(t, h)
  PROVE  IInv'
<1>1. CASE Initialize(t, h)
  BY <1>1, InitializeInv
<1>2. CASE Release(t, h) \/ \E u \in Threads \ {t} : Move(t, h, u)
  BY <1>2, MutInv
<1>3. ASSUME NEW r \in Repos, Option(t, h, r) \/ RegisterSyncdb(t, h, r)
      PROVE  IInv'
  <2>1. Free(t) /\ Has(t, h)
    BY <1>3 DEF Option, RegisterSyncdb, Mut
  <2> QED BY <1>3, <2>1, EnterUnlessInv DEF Option, RegisterSyncdb, Methods
<1>4. ASSUME NEW r \in Repos, LocalDb(t, h, r) \/ SyncDbs(t, h, r)
      PROVE  IInv'
  BY <1>4, EnterInv DEF LocalDb, SyncDbs, Ref, Methods
<1>5. ASSUME NEW r \in Repos, UpdateDbs(t, h, r)
      PROVE  IInv'
  <2>1. PICK dbs \in SUBSET HeldDbs(t) : Enter(t, "update_dbs", h, r, dbs)
    BY <1>5 DEF UpdateDbs
  <2> QED BY <1>5, <2>1, EnterInv DEF UpdateDbs, Mut, Methods, HeldDbs
<1>6. ASSUME NEW r \in Repos, Check(t, h, r)
      PROVE  IInv'
  <2>1. PICK pkgs \in SUBSET (Held(t) \ HeldDbs(t)) : Enter(t, "check", h, r, pkgs)
    BY <1>6 DEF Check
  <2> QED BY <1>6, <2>1, EnterInv DEF Check, Ref, Methods
<1>7. ASSUME NEW r \in Repos, FindDbsSatisfier(t, h, r)
      PROVE  IInv'
  <2>1. PICK dbs \in SUBSET HeldDbs(t) : EnterUnless("None", t, "find_dbs_satisfier", h, r, dbs)
    BY <1>7 DEF FindDbsSatisfier
  <2>2. dbs \in SUBSET Held(t) /\ Free(t) /\ Has(t, h)
    BY <1>7 DEF FindDbsSatisfier, Ref, HeldDbs
  <2> QED BY <2>1, <2>2, EnterUnlessInv DEF Methods
<1> QED BY <1>1, <1>2, <1>3, <1>4, <1>5, <1>6, <1>7 DEF OnHandle

\* Methods called on a Db: whoever holds it has its Handle.
LEMMA OnDbInv ==
  ASSUME IInv, NEW t \in Threads, NEW v \in HeldDbs(t), OnDb(t, v)
  PROVE  IInv'
<1>1. /\ v \in views /\ v \in View /\ v \in Held(t)
      /\ HandleOf(v) \in Handles /\ Has(t, HandleOf(v))
  BY ViewShape DEF IInv, TypeOK, Tied, Has, HeldDbs, Held
<1>2. {v} \in SUBSET Held(t)
  BY <1>1
<1>3. PICK r \in Repos : GetPkg(t, v, r) \/ Packages(t, v, r) \/ Search(t, v, r)
  BY DEF OnDb
<1>4. Free(t)
  BY <1>3 DEF GetPkg, Packages, Search
<1>5. CASE GetPkg(t, v, r)
  BY <1>1, <1>2, <1>4, <1>5, EnterUnlessInv DEF GetPkg, Methods
<1>6. CASE Packages(t, v, r)
  BY <1>1, <1>2, <1>6, EnterInv DEF Packages, Methods
<1>7. CASE Search(t, v, r)
  BY <1>1, <1>2, <1>4, <1>7, EnterUnlessInv DEF Search, Methods
<1> QED BY <1>3, <1>5, <1>6, <1>7

\* Packages that a call took from its arguments are tied to them and to the Handle.
LEMMA Found ==
  ASSUME IInv, NEW t \in Threads, call[t] # Idle, NEW some \in SUBSET call[t].args
  PROVE  Lawful(t, {PkgView(v, call[t].handle) : v \in some})
<1> SUFFICES ASSUME NEW v \in some
             PROVE  Lawful(t, {PkgView(v, call[t].handle)})
  BY DEF Lawful
<1>1. /\ Has(t, call[t].handle) /\ call[t].handle \in Handles
      /\ v \in views /\ v \in View /\ owner[HandleOf(v)] = t
  BY CallShape DEF IInv, TypeOK, InMethod, Within, Held
<1>2. HandleOf(v) \in v.borrows /\ \A h \in v.borrows : life[h] = "open" /\ owner[h] = t
  BY <1>1 DEF IInv, Tied
<1>3. /\ PkgView(v, call[t].handle) \in View
      /\ HandleOf(PkgView(v, call[t].handle)) = HandleOf(v)
      /\ PkgView(v, call[t].handle).borrows = v.borrows \cup {call[t].handle}
  BY <1>1, PkgViewShape DEF IInv
<1> QED BY <1>1, <1>2, <1>3 DEF Has, Lawful

\* Dbs that a call made are tied to its Handle.
LEMMA Opened ==
  ASSUME IInv, NEW t \in Threads, call[t] # Idle, NEW unique \in BOOLEAN,
         NEW some \in SUBSET (Repos \cup {Local})
  PROVE  Lawful(t, {DbView(call[t].handle, r, unique) : r \in some})
<1> SUFFICES ASSUME NEW r \in some
             PROVE  Lawful(t, {DbView(call[t].handle, r, unique)})
  BY DEF Lawful
<1>1. Has(t, call[t].handle) /\ call[t].handle \in Handles
  BY CallShape DEF IInv, InMethod, Within
<1>2. /\ DbView(call[t].handle, r, unique) \in View
      /\ HandleOf(DbView(call[t].handle, r, unique)) = call[t].handle
      /\ DbView(call[t].handle, r, unique).borrows = {call[t].handle}
  BY <1>1, DbViewShape DEF IInv
<1> QED BY <1>1, <1>2 DEF Has, Lawful

\* A wrapper that returns no Err leaves the invariant as it is.
LEMMA GiveInv ==
  ASSUME IInv, NEW t \in Threads, call[t] # Idle, NEW new, Lawful(t, new),
         views' = views \cup new, NEW value \in {"Ok", "None"},
         Return(t, call[t].method, value, NoError)
  PROVE  IInv'
<1>1. call[t].method \in Methods
  BY CallShape DEF IInv, InMethod
<1> QED BY <1>1, ReturnInv

\* Methods whose Err has the context's errno.
LEMMA ReturnCheckedInv ==
  ASSUME IInv, NEW t \in Threads, call[t] # Idle, ReturnChecked(t)
  PROVE  IInv'
<1> DEFINE c == call[t]
<1>1. c \in InMethod /\ ~Free(t)
  BY CallShape DEF IInv, Free
<1>2. CASE c.rc < 0
  <2>1. Return(t, c.method, "Err", errno[c.handle]) /\ views' = views \cup {}
    BY <1>1, <1>2 DEF ReturnChecked, InMethod
  <2>2. errno[c.handle] = c.cause /\ c.cause \in Errors \cup {NoError}
    BY <1>1, <1>2 DEF IInv, Told, InMethod
  <2>3. Lawful(t, {})
    BY DEF Lawful
  <2>4. c.method \in Methods
    BY <1>1 DEF InMethod
  <2> QED BY <1>1, <1>2, <2>1, <2>2, <2>3, <2>4, ReturnInv
<1>3. CASE ~(c.rc < 0)
  <2> DEFINE new == CASE c.method = "local_db" -> {DbView(c.handle, Local, FALSE)}
                      [] c.method = "register_syncdb" -> {DbView(c.handle, c.repo, TRUE)}
                      [] OTHER -> {}
  <2>1. Return(t, c.method, "Ok", NoError) /\ views' = views \cup new
    BY <1>3 DEF ReturnChecked, Yield
  <2>2. CASE c.method = "local_db"
    <3>1. Lawful(t, {DbView(c.handle, r, FALSE) : r \in {Local}})
      BY Opened
    <3>2. new = {DbView(c.handle, r, FALSE) : r \in {Local}}
      BY <2>2
    <3> QED BY <2>1, <3>1, <3>2, GiveInv
  <2>3. CASE c.method = "register_syncdb"
    <3>1. Lawful(t, {DbView(c.handle, r, TRUE) : r \in {c.repo}})
      BY <1>1, Opened DEF InMethod
    <3>2. new = {DbView(c.handle, r, TRUE) : r \in {c.repo}}
      BY <2>3
    <3> QED BY <2>1, <3>1, <3>2, GiveInv
  <2>4. CASE c.method \notin {"local_db", "register_syncdb"}
    <3>1. new = {} /\ Lawful(t, {})
      BY <2>4 DEF Lawful
    <3> QED BY <2>1, <3>1, GiveInv
  <2> QED BY <2>2, <2>3, <2>4
<1> QED BY <1>2, <1>3

\* Methods that return a list.
LEMMA ReturnListInv ==
  ASSUME IInv, NEW t \in Threads, call[t] # Idle, ReturnList(t)
  PROVE  IInv'
<1> DEFINE c == call[t]
           new == CASE c.method = "sync_dbs" -> {DbView(c.handle, r, FALSE) : r \in registered[c.handle]}
                    [] c.method = "packages" -> {PkgView(v, c.handle) : v \in c.args}
                    [] OTHER -> {}
<1>1. /\ Return(t, c.method, "Ok", NoError)
      /\ views' = views \cup new \/ views' = views \cup {}
  BY DEF ReturnList, Yield
<1>2. Lawful(t, {})
  BY DEF Lawful
<1>3. Lawful(t, new)
  <2>1. CASE c.method = "sync_dbs"
    <3>1. registered[c.handle] \in SUBSET (Repos \cup {Local})
      BY CallShape DEF IInv, TypeOK, InMethod
    <3>2. Lawful(t, {DbView(c.handle, r, FALSE) : r \in registered[c.handle]})
      BY <3>1, Opened
    <3> QED BY <2>1, <3>2
  <2>2. CASE c.method = "packages"
    <3>1. Lawful(t, {PkgView(v, c.handle) : v \in c.args})
      BY Found
    <3> QED BY <2>2, <3>1
  <2>3. CASE c.method \notin {"sync_dbs", "packages"}
    BY <1>2, <2>3
  <2> QED BY <2>1, <2>2, <2>3
<1> HIDE DEF new
<1> QED BY <1>1, <1>2, <1>3, GiveInv

\* Methods that return a package or None.
LEMMA ReturnPackageInv ==
  ASSUME IInv, NEW t \in Threads, call[t] # Idle, ReturnPackage(t)
  PROVE  IInv'
<1> DEFINE c == call[t]
<1>1. CASE Return(t, c.method, "None", NoError) /\ UNCHANGED views
  <2>1. views' = views \cup {} /\ Lawful(t, {})
    BY <1>1 DEF Lawful
  <2> QED BY <1>1, <2>1, GiveInv
<1>2. CASE Return(t, c.method, "Ok", NoError) /\ \E v \in c.args : Yield(t, {PkgView(v, c.handle)})
  <2>1. PICK v \in c.args : views' = views \cup {PkgView(v, c.handle)}
    BY <1>2 DEF Yield
  <2>2. Lawful(t, {PkgView(w, c.handle) : w \in {v}})
    BY Found
  <2>3. {PkgView(w, c.handle) : w \in {v}} = {PkgView(v, c.handle)}
    OBVIOUS
  <2> QED BY <1>2, <2>1, <2>2, <2>3, GiveInv
<1> QED BY <1>1, <1>2 DEF ReturnPackage

\* search, whose Err does not have the context's errno.
LEMMA ReturnSearchInv ==
  ASSUME IInv, NEW t \in Threads, call[t] # Idle, ReturnSearch(t)
  PROVE  IInv'
<1> DEFINE c == call[t]
<1>1. CASE Return(t, c.method, "Err", Invalid) /\ UNCHANGED views
  <2>1. views' = views \cup {} /\ Lawful(t, {})
    BY <1>1 DEF Lawful
  <2>2. c.method = "search" /\ "search" \in Methods
    BY DEF ReturnSearch, Methods
  <2> QED BY <1>1, <2>1, <2>2, ReturnInv
<1>2. CASE /\ Return(t, c.method, "Ok", NoError)
           /\ \E some \in SUBSET c.args : Yield(t, {PkgView(v, c.handle) : v \in some})
  <2>1. PICK some \in SUBSET c.args : views' = views \cup {PkgView(v, c.handle) : v \in some}
    BY <1>2 DEF Yield
  <2>2. Lawful(t, {PkgView(v, c.handle) : v \in some})
    BY Found
  <2> QED BY <1>2, <2>1, <2>2, GiveInv
<1> QED BY <1>1, <1>2 DEF ReturnSearch

\* The wrapper of every method returns what the thread may have.
LEMMA FinishInv ==
  ASSUME IInv, NEW t \in Threads, Finish(t)
  PROVE  IInv'
<1>1. call[t] # Idle
  BY AtMethod DEF IInv, Finish
<1> QED BY <1>1, ReturnCheckedInv, ReturnListInv, ReturnPackageInv, ReturnSearchInv DEF Finish

\* IInv is inductive.
LEMMA Inductive == IInv /\ [Next]_vars => IInv'
<1>1. ASSUME IInv, Next PROVE IInv'
  <2>1. ASSUME NEW t \in Threads, NEW h \in Handles, OnHandle(t, h) PROVE IInv'
    BY <1>1, <2>1, OnHandleInv
  <2>2. ASSUME NEW t \in Threads, NEW v \in Held(t), Forget(t, v) PROVE IInv'
    BY <1>1, <2>2, ForgetInv
  <2>3. ASSUME NEW t \in Threads, NEW v \in HeldDbs(t), OnDb(t, v) PROVE IInv'
    BY <1>1, <2>3, OnDbInv
  <2>4. ASSUME NEW t \in Threads, Succeed(t) PROVE IInv'
    BY <1>1, <2>4, SucceedInv
  <2>5. ASSUME NEW t \in Threads, NEW e \in Errors, Fail(t, e) PROVE IInv'
    BY <1>1, <2>5, FailInv
  <2>6. ASSUME NEW t \in Threads, Finish(t) PROVE IInv'
    BY <1>1, <2>6, FinishInv
  <2> QED BY <1>1, <2>1, <2>2, <2>3, <2>4, <2>5, <2>6 DEF Next
<1>2. ASSUME IInv, UNCHANGED vars PROVE IInv'
  BY <1>2 DEF vars, ctx, IInv, TypeOK, Tied, Within, Told, ErrIsOwn, Has, Held
<1> QED BY <1>1, <1>2

\* IInv holds throughout.
LEMMA Invariance == Spec => []IInv
BY InitInv, Inductive, PTL DEF Spec

--------------------------------------------------------------------------------
(* Theorems                                                                    *)

\* Every reachable state has the declared shape.
THEOREM TypeCorrect == Spec => []TypeOK
<1>1. IInv => TypeOK
  BY DEF IInv
<1> QED BY <1>1, Invariance, PTL

\* No Db or Package outlives the libalpm context it points into, however calls
\* combine those of several Handles (the lifetimes of db.rs and pkg.rs).
THEOREM NoDanglingView == Spec => []ContextOpen
<1>1. IInv => ContextOpen
  BY DEF IInv, Tied, ContextOpen
<1> QED BY <1>1, Invariance, PTL

\* No two threads are in libalpm with one context (Handle is Send and not Sync,
\* handle.rs:25-31).
THEOREM Serialized == Spec => []OneAtATime
<1>1. IInv => OneAtATime
  <2> SUFFICES ASSUME IInv, NEW t \in Threads, NEW u \in Threads, t # u,
                      call[t].at = "libalpm", call[u].at = "libalpm",
                      NEW h \in Touches(call[t]), h \in Touches(call[u])
               PROVE  FALSE
    BY DEF OneAtATime
  <2>1. \A s \in {t, u} : \A g \in Touches(call[s]) : owner[g] = s
    BY AtMethod DEF IInv, Within, Has, Held, Touches
  <2> QED BY <2>1
<1> QED BY <1>1, Invariance, PTL

\* The errno in an Err is the failed call's own, although it is read in a call
\* of its own (last_error, handle.rs:229-240), and initialize's the one it was
\* given (46-51).
THEOREM ErrorIsOfTheCall == Spec => []ErrIsOwn
<1>1. IInv => ErrIsOwn
  BY DEF IInv
<1> QED BY <1>1, Invariance, PTL

--------------------------------------------------------------------------------
(* A program with one Handle                                                   *)

\* While update_dbs runs it has no databases.
NothingToUpdate ==
  \A t \in Threads : call[t] # Idle /\ call[t].method = "update_dbs" => call[t].args = {}

\* Nothing is borrowed when the only Handle is mutable, so nothing is held.
LEMMA AloneMeansNoArguments ==
  ASSUME IInv, NothingToUpdate, [Next]_vars, \A g, h \in Handles : g = h
  PROVE  NothingToUpdate'
<1> SUFFICES ASSUME NEW u \in Threads, call'[u] # Idle, call'[u].method = "update_dbs"
             PROVE  call'[u].args = {}
  BY DEF NothingToUpdate
<1>1. CASE call'[u] = call[u]
  BY <1>1 DEF NothingToUpdate
<1>2. ASSUME NEW t \in Threads, NEW m \in Methods \ {"update_dbs"}, NEW h, NEW r, NEW args,
             Enter(t, m, h, r, args), call'[u] # call[u]
      PROVE  FALSE
  BY <1>2 DEF Enter, IInv, TypeOK
<1>3. ASSUME NEW t \in Threads, NEW m, NEW value, NEW e, Return(t, m, value, e)
      PROVE  call'[u] = call[u]
  BY <1>3 DEF Return, IInv, TypeOK
<1>4. ASSUME NEW t \in Threads, NEW h \in Handles, NEW r, UpdateDbs(t, h, r)
      PROVE  call'[u].args = {}
  <2>1. views = {}
    <3> SUFFICES ASSUME NEW v \in views PROVE FALSE
      OBVIOUS
    <3>1. HandleOf(v) \in v.borrows /\ HandleOf(v) = h
      BY ViewShape DEF IInv, TypeOK, Tied
    <3> QED BY <1>4, <3>1 DEF UpdateDbs, Mut, Borrowers
  <2>2. Enter(t, "update_dbs", h, r, {})
    BY <1>4, <2>1 DEF UpdateDbs, HeldDbs, Held
  <2>3. u # t => call'[u] = call[u]
    BY <2>2 DEF Enter, IInv, TypeOK
  <2>4. u = t => call'[u].args = {}
    BY <2>2 DEF Enter, IInv, TypeOK
  <2> QED BY <2>3, <2>4 DEF NothingToUpdate
<1>5. ASSUME NEW t \in Threads, call[t].at \in {"libalpm", "wrapper"},
             \/ call' = [call EXCEPT ![t].at = "wrapper"]
             \/ call' = [call EXCEPT ![t].at = "wrapper", ![t].rc = 1]
             \/ \E e : call' = [call EXCEPT ![t].at = "wrapper", ![t].rc = -1, ![t].cause = e]
      PROVE  call'[u].args = {}
  <2>1. call[t] # Idle /\ call[t] \in InMethod
    BY <1>5, AtMethod, CallShape DEF IInv
  <2>2. u # t => call'[u] = call[u]
    BY <1>5 DEF IInv, TypeOK
  <2>3. u = t => call'[u].method = call[u].method /\ call'[u].args = call[u].args
    BY <1>5, <2>1 DEF IInv, TypeOK, InMethod
  <2> QED BY <2>1, <2>2, <2>3 DEF NothingToUpdate
<1>6. CASE UNCHANGED vars
  BY <1>1, <1>6 DEF vars
<1>7. ASSUME NEW t \in Threads, NEW h \in Handles, OnHandle(t, h)
      PROVE  call'[u].args = {}
  <2>1. CASE UNCHANGED call
    BY <1>1, <2>1
  <2>2. ASSUME NEW m \in Methods \ {"update_dbs"}, NEW r, NEW args, NEW refusal,
               \/ Enter(t, m, h, r, args) \/ EnterUnless(refusal, t, m, h, r, args)
        PROVE  call'[u].args = {}
    BY <1>1, <1>2, <1>3, <2>2 DEF EnterUnless
  <2>3. {"option", "register_syncdb", "local_db", "sync_dbs", "check", "find_dbs_satisfier"}
          \subseteq Methods \ {"update_dbs"}
    BY DEF Methods
  <2>4. ASSUME NEW r \in Repos,
               \/ Option(t, h, r) \/ RegisterSyncdb(t, h, r) \/ LocalDb(t, h, r)
               \/ SyncDbs(t, h, r) \/ Check(t, h, r) \/ FindDbsSatisfier(t, h, r)
        PROVE  call'[u].args = {}
    <3>1. CASE Option(t, h, r)
      BY <2>2, <2>3, <3>1 DEF Option
    <3>2. CASE RegisterSyncdb(t, h, r)
      BY <2>2, <2>3, <3>2 DEF RegisterSyncdb
    <3>3. CASE LocalDb(t, h, r)
      BY <2>2, <2>3, <3>3 DEF LocalDb
    <3>4. CASE SyncDbs(t, h, r)
      BY <2>2, <2>3, <3>4 DEF SyncDbs
    <3>5. CASE Check(t, h, r)
      BY <2>2, <2>3, <3>5 DEF Check
    <3>6. CASE FindDbsSatisfier(t, h, r)
      BY <2>2, <2>3, <3>6 DEF FindDbsSatisfier
    <3> QED BY <2>4, <3>1, <3>2, <3>3, <3>4, <3>5, <3>6
  <2> QED BY <1>4, <1>7, <2>1, <2>4 DEF OnHandle, Initialize, InitializeFails, Release, Move
<1>8. ASSUME NEW t \in Threads, NEW v, OnDb(t, v)
      PROVE  call'[u].args = {}
  <2>1. ASSUME NEW m \in Methods \ {"update_dbs"}, NEW h, NEW r, NEW args, NEW refusal,
               \/ Enter(t, m, h, r, args) \/ EnterUnless(refusal, t, m, h, r, args)
        PROVE  call'[u].args = {}
    BY <1>1, <1>2, <1>3, <2>1 DEF EnterUnless
  <2>2. {"get_pkg", "packages", "search"} \subseteq Methods \ {"update_dbs"}
    BY DEF Methods
  <2> QED BY <1>8, <2>1, <2>2 DEF OnDb, GetPkg, Packages, Search
<1>9. ASSUME NEW t \in Threads, Succeed(t) PROVE call'[u].args = {}
  BY <1>5, <1>9 DEF Succeed
<1>10. ASSUME NEW t \in Threads, NEW e \in Errors, Fail(t, e) PROVE call'[u].args = {}
  BY <1>5, <1>10 DEF Fail
<1>11. ASSUME NEW t \in Threads, Finish(t) PROVE call'[u].args = {}
  BY <1>1, <1>3, <1>11 DEF Finish, ReturnChecked, ReturnList, ReturnPackage, ReturnSearch
<1>12. ASSUME NEW t \in Threads, NEW v \in Held(t), Forget(t, v) PROVE call'[u].args = {}
  BY <1>1, <1>12 DEF Forget
<1> QED BY <1>6, <1>7, <1>8, <1>9, <1>10, <1>11, <1>12 DEF Next

\* A refresh of nothing replaces no cache.
LEMMA NoCacheReplaced ==
  ASSUME IInv, NothingToUpdate, [Next]_vars
  PROVE  cache' = cache
<1>1. ASSUME NEW t \in Threads, call[t].at = "libalpm", NEW some \in SUBSET call[t].args,
             call[t].method = "update_dbs", Refresh({v.db : v \in some})
      PROVE  cache' = cache
  <2>1. some = {}
    BY <1>1, AtMethod DEF IInv, NothingToUpdate
  <2> QED BY <1>1, <2>1 DEF Refresh, IInv, TypeOK
<1>2. ASSUME NEW t \in Threads, Succeed(t) PROVE cache' = cache
  BY <1>1, <1>2 DEF Succeed
<1>3. ASSUME NEW t \in Threads, NEW e \in Errors, Fail(t, e) PROVE cache' = cache
  BY <1>1, <1>3 DEF Fail
<1>4. ASSUME NEW t, NEW h, OnHandle(t, h) PROVE cache' = cache
  BY <1>4 DEF OnHandle, Initialize, InitializeFails, Release, Move, Option, RegisterSyncdb, LocalDb, SyncDbs,
              UpdateDbs, Check, FindDbsSatisfier, EnterUnless, Enter, Return, ctx
<1>5. ASSUME NEW t, NEW v, OnDb(t, v) PROVE cache' = cache
  BY <1>5 DEF OnDb, GetPkg, Packages, Search, EnterUnless, Enter, Return, ctx
<1>6. ASSUME NEW t, Finish(t) PROVE cache' = cache
  BY <1>6 DEF Finish, ReturnChecked, ReturnList, ReturnPackage, ReturnSearch, Return, ctx
<1>7. ASSUME NEW t, NEW v, Forget(t, v) PROVE cache' = cache
  BY <1>7 DEF Forget, ctx
<1> QED BY <1>2, <1>3, <1>4, <1>5, <1>6, <1>7 DEF Next, vars, ctx

\* A Package is given with the cache of its day.
Fresh(v) == v.kind = "pkg" => v.cache = cache[v.db]

\* What a step adds to the views is fresh.
LEMMA NewIsFresh ==
  ASSUME IInv, [Next]_vars, NEW v \in views', v \notin views
  PROVE  Fresh(v)
<1>1. \A h : \A w \in View : Fresh(PkgView(w, h))
  BY DEF Fresh, PkgView, View
<1>2. \A h, r, unique : Fresh(DbView(h, r, unique))
  BY DEF Fresh, DbView
<1>3. ASSUME NEW t \in Threads, Finish(t) PROVE Fresh(v)
  <2>1. call[t] \in InMethod /\ call[t].args \subseteq View
    BY <1>3, AtMethod, CallShape DEF IInv, Finish, InMethod
  <2>2. CASE ReturnChecked(t)
    BY <1>2, <2>2 DEF ReturnChecked, Yield
  <2>3. CASE ReturnList(t)
    <3> DEFINE dbs == {DbView(call[t].handle, r, FALSE) : r \in registered[call[t].handle]}
               pkgs == {PkgView(w, call[t].handle) : w \in call[t].args}
    <3>1. views' = views \/ views' = views \cup dbs \/ views' = views \cup pkgs
          \/ views' = views \cup {}
      BY <2>3 DEF ReturnList, Yield
    <3>2. (\A w \in dbs : Fresh(w)) /\ (\A w \in pkgs : Fresh(w))
      BY <1>1, <1>2, <2>1
    <3> HIDE DEF dbs, pkgs
    <3> QED BY <3>1, <3>2
  <2>4. CASE ReturnPackage(t)
    BY <1>1, <2>1, <2>4 DEF ReturnPackage, Yield
  <2>5. CASE ReturnSearch(t)
    <3>1. PICK some \in SUBSET call[t].args :
            views' = views \cup {PkgView(w, call[t].handle) : w \in some}
      BY <2>5 DEF ReturnSearch, Yield
    <3> QED BY <1>1, <2>1, <3>1
  <2> QED BY <1>3, <2>2, <2>3, <2>4, <2>5 DEF Finish
<1>4. ASSUME NEW t, NEW h, OnHandle(t, h) PROVE FALSE
  BY <1>4 DEF OnHandle, Initialize, InitializeFails, Release, Move, Option, RegisterSyncdb, LocalDb, SyncDbs,
              UpdateDbs, Check, FindDbsSatisfier, EnterUnless, Enter
<1>5. ASSUME NEW t, NEW w, OnDb(t, w) PROVE FALSE
  BY <1>5 DEF OnDb, GetPkg, Packages, Search, EnterUnless, Enter
<1> QED BY <1>3, <1>4, <1>5 DEF Next, vars, Forget, Succeed, Fail

\* update_dbs endangers the Packages of other Handles only: in a program with
\* one, the cache a Package points into stays as long as the Package
\* (handle.rs:132-142, pkg.rs:29-32).
THEOREM CachesKeptAlone ==
  ASSUME \A g, h \in Handles : g = h
  PROVE  Spec => []CacheKept
<1>1. Init => CacheKept /\ NothingToUpdate
  BY DEF Init, CacheKept, NothingToUpdate
<1>2. IInv /\ CacheKept /\ NothingToUpdate /\ [Next]_vars => (CacheKept /\ NothingToUpdate)'
  BY AloneMeansNoArguments, NoCacheReplaced, NewIsFresh DEF CacheKept, Fresh
<1> QED BY <1>1, <1>2, Invariance, PTL DEF Spec
================================================================================
