------------------------------ MODULE AlpmHandle ------------------------------
(***************************************************************************)
(* nyx_alpm::Handle and the Db and Package views taken from it             *)
(* (crates/nyx-alpm/src/handle.rs, db.rs, pkg.rs).                         *)
(*                                                                         *)
(* A Handle owns one libalpm context.  A method enters libalpm, comes back *)
(* with a return code, and only then reads the context's errno.  Whether   *)
(* that is safe is decided by the signatures: &self, &mut self, the        *)
(* lifetime of what a method returns, Handle being Send but not Sync.      *)
(* What safe Rust lets a program do with them are the guards here.         *)
(*                                                                         *)
(* libalpm is external.  A call succeeds or fails at will, a failing call  *)
(* puts the reason in the context's errno, and refreshing a database       *)
(* replaces its package cache, packages included.                          *)
(***************************************************************************)
EXTENDS Integers, FiniteSets

CONSTANTS
  Threads,
  Handles,     \* Handle values a program may initialize
  Repos,       \* names of sync repositories
  Errors,      \* values of alpm_errno_t for failures
  MaxViews,    \* bound: views alive at a time
  MaxRefresh   \* bound: refreshes of one database

Local == "local"
Nobody == "nobody"
Databases == Handles \X (Repos \cup {Local})
NoError == 0     \* ALPM_ERR_OK
Invalid == -1    \* what the wrapper puts for errno in errors of its own

ASSUME AlpmHandleAssumption ==
  /\ Errors \subseteq Nat \ {NoError}
  /\ Nobody \notin Threads
  /\ MaxViews \in Nat /\ MaxRefresh \in Nat
  /\ Local \notin Repos

VARIABLES
  life,        \* of each Handle: "none", "open", "released"
  owner,       \* the thread that has it (Nobody before it is initialized)
  registered,  \* libalpm: sync databases of its context
  errno,       \* libalpm: the context's latest error
  cache,       \* libalpm: how often a database's package cache was replaced
  views,       \* Db and Package values alive
  call,        \* the method each thread is in
  result       \* what its latest one returned, until its next step

ctx  == <<life, owner, registered, errno, cache>>
vars == <<ctx, views, call, result>>

--------------------------------------------------------------------------------
(* Values                                                                      *)

\* A view is of a database's cache as it then was.  It borrows Handles, its
\* database's uniquely if a &mut self method made it.
View == [kind : {"db", "pkg"}, db : Databases, cache : Nat,
         borrows : SUBSET Handles, unique : BOOLEAN]
HandleOf(v) == v.db[1]
Borrowers(h) == {v \in views : h \in v.borrows}
DbView(h, r, unique) == [kind |-> "db", db |-> <<h, r>>, cache |-> cache[<<h, r>>],
                         borrows |-> {h}, unique |-> unique]
\* Seeded bug: Packages found in a Db are tied to the Handle asked, only.
LooseView(v, h) == [v EXCEPT !.kind = "pkg", !.cache = cache[v.db], !.borrows = {h}]

PkgView(v, h) == [v EXCEPT !.kind = "pkg", !.cache = cache[v.db], !.borrows = @ \cup {h}]

Methods == {"option", "local_db", "register_syncdb", "sync_dbs", "update_dbs",
            "check", "find_dbs_satisfier", "get_pkg", "packages", "search"}
Initializer == "initialize"   \* not a method: there is no Handle yet

\* A method under way: in libalpm, or back with its return code.  cause is a
\* history variable: the error libalpm reported for this very call.
InMethod == [at : {"libalpm", "wrapper"}, method : Methods, handle : Handles,
             repo : Repos, args : SUBSET View, rc : {-1, 0, 1}, cause : Errors \cup {NoError}]
Idle == [at |-> "idle"]
Nothing == [method |-> "none"]
Returned == [method : Methods \cup {Initializer}, value : {"Ok", "Err", "None"}, rc : {-1, 0, 1},
             errno : Errors \cup {NoError, Invalid}, cause : Errors \cup {NoError}]

--------------------------------------------------------------------------------
(* What a signature lets a program do                                          *)

Free(t) == call[t] = Idle
Has(t, h) == life[h] = "open" /\ owner[h] = t

\* Seeded bug: a Handle that is Sync.
SharedAnywhere(t, h) == life[h] = "open" /\ Free(t)

\* &self: no view borrows the Handle uniquely, and this is its thread.
Ref(t, h) == Free(t) /\ Has(t, h) /\ \A v \in Borrowers(h) : ~(v.unique /\ HandleOf(v) = h)
\* &mut self, a move, a drop: no view borrows the Handle at all.
Mut(t, h) == Free(t) /\ Has(t, h) /\ Borrowers(h) = {}
\* Raw pointers make Db and Package stay in the thread of their Handle.
Held(t) == {v \in views : owner[HandleOf(v)] = t}
HeldDbs(t) == {v \in Held(t) : v.kind = "db"}

--------------------------------------------------------------------------------
Init ==
  /\ life = [h \in Handles |-> "none"]
  /\ owner = [h \in Handles |-> Nobody]
  /\ registered = [h \in Handles |-> {}]
  /\ errno = [h \in Handles |-> NoError]
  /\ cache = [d \in Databases |-> 0]
  /\ views = {}
  /\ call = [t \in Threads |-> Idle]
  /\ result = [t \in Threads |-> Nothing]

\* The program has looked at what the latest method returned.
Done(t) == result' = [result EXCEPT ![t] = Nothing]

\* Handle::initialize.  A path libalpm cannot take is refused beforehand; of a
\* null the reason is in an errno of initialize's own.  Either way there is no
\* Handle.
InitializeFails(t, rc, e) ==
  /\ result' = [result EXCEPT ![t] = [method |-> Initializer, value |-> "Err", rc |-> rc,
                                     errno |-> IF rc < 0 THEN e ELSE Invalid, cause |-> e]]
  /\ UNCHANGED <<ctx, views, call>>

Initialize(t, h) ==
  /\ Free(t) /\ life[h] = "none"
  /\ \/ /\ life' = [life EXCEPT ![h] = "open"]
        /\ owner' = [owner EXCEPT ![h] = t]
        /\ Done(t)
        /\ UNCHANGED <<registered, errno, cache, views, call>>
     \/ InitializeFails(t, 0, NoError)
     \/ \E e \in Errors : InitializeFails(t, -1, e)

\* Drop: alpm_release frees the context and every database with it.
Release(t, h) ==
  /\ Mut(t, h)
  /\ life' = [life EXCEPT ![h] = "released"]
  /\ Done(t)
  /\ UNCHANGED <<owner, registered, errno, cache, views, call>>

\* Send: another thread gets the Handle.
Move(t, h, u) ==
  /\ Mut(t, h)
  /\ owner' = [owner EXCEPT ![h] = u]
  /\ Done(t)
  /\ UNCHANGED <<life, registered, errno, cache, views, call>>

\* The program is done with a Db or Package.
Forget(t, v) ==
  /\ Free(t) /\ v \in Held(t)
  /\ views' = views \ {v}
  /\ Done(t)
  /\ UNCHANGED <<ctx, call>>

Enter(t, m, h, r, args) ==
  /\ call' = [call EXCEPT ![t] = [at |-> "libalpm", method |-> m, handle |-> h, repo |-> r,
                                  args |-> args, rc |-> 0, cause |-> NoError]]
  /\ Done(t)
  /\ UNCHANGED <<ctx, views>>

Return(t, m, value, e) ==
  /\ call' = [call EXCEPT ![t] = Idle]
  /\ result' = [result EXCEPT ![t] =
                  [method |-> m, value |-> value, errno |-> e,
                   rc |-> IF Free(t) THEN 0 ELSE call[t].rc,
                   cause |-> IF Free(t) THEN NoError ELSE call[t].cause]]
  /\ UNCHANGED ctx

\* A string libalpm cannot take (a NUL, bad UTF-8) is refused beforehand, by
\* an Err without libalpm's errno or by None.
EnterUnless(refusal, t, m, h, r, args) ==
  \/ Enter(t, m, h, r, args)
  \/ Return(t, m, refusal, IF refusal = "Err" THEN Invalid ELSE NoError) /\ UNCHANGED views

\* add_cachedir and set_logfile.
Option(t, h, r) == Mut(t, h) /\ EnterUnless("Err", t, "option", h, r, {})
RegisterSyncdb(t, h, r) == Mut(t, h) /\ EnterUnless("Err", t, "register_syncdb", h, r, {})
LocalDb(t, h, r) == Ref(t, h) /\ Enter(t, "local_db", h, r, {})
SyncDbs(t, h, r) == Ref(t, h) /\ Enter(t, "sync_dbs", h, r, {})

\* The databases listed may be of any Handle, but a Db of this one would
\* borrow what has to be unique.
UpdateDbs(t, h, r) == Mut(t, h) /\ \E dbs \in SUBSET HeldDbs(t) : Enter(t, "update_dbs", h, r, dbs)

\* check_deps and check_conflicts.
Check(t, h, r) ==
  Ref(t, h) /\ \E pkgs \in SUBSET (Held(t) \ HeldDbs(t)) : Enter(t, "check", h, r, pkgs)

FindDbsSatisfier(t, h, r) ==
  Ref(t, h) /\ \E dbs \in SUBSET HeldDbs(t) :
                 EnterUnless("None", t, "find_dbs_satisfier", h, r, dbs)

GetPkg(t, v, r) == Free(t) /\ EnterUnless("None", t, "get_pkg", HandleOf(v), r, {v})
Packages(t, v, r) == Free(t) /\ Enter(t, "packages", HandleOf(v), r, {v})
Search(t, v, r) == Free(t) /\ EnterUnless("Err", t, "search", HandleOf(v), r, {v})

--------------------------------------------------------------------------------
(* libalpm                                                                     *)

Refresh(dbs) ==
  /\ \A d \in dbs : cache[d] < MaxRefresh
  /\ cache' = [d \in Databases |-> IF d \in dbs THEN cache[d] + 1 ELSE cache[d]]

\* A call does its work.  alpm_db_update returns a positive code when there
\* was nothing to download.
Succeed(t) ==
  LET c == call[t]
  IN  /\ c.at = "libalpm"
      /\ \/ /\ c.method = "update_dbs"
            /\ \/ /\ Refresh({v.db : v \in c.args})
                  /\ call' = [call EXCEPT ![t].at = "wrapper"]
               \/ /\ c.args # {}
                  /\ call' = [call EXCEPT ![t].at = "wrapper", ![t].rc = 1]
                  /\ UNCHANGED cache
            /\ UNCHANGED registered
         \/ /\ c.method # "update_dbs"
            /\ c.method = "find_dbs_satisfier" => c.args # {}
            /\ registered' = IF c.method = "register_syncdb"
                             THEN [registered EXCEPT ![c.handle] = @ \cup {c.repo}]
                             ELSE registered
            /\ call' = [call EXCEPT ![t].at = "wrapper"]
            /\ UNCHANGED cache
      /\ UNCHANGED <<life, owner, errno, views, result>>

\* It fails, some of the databases to update perhaps refreshed by then.
Fail(t, e) ==
  LET c == call[t]
  IN  /\ c.at = "libalpm"
      /\ call' = [call EXCEPT ![t].at = "wrapper", ![t].rc = -1, ![t].cause = e]
      /\ errno' = [errno EXCEPT ![c.handle] = e]
      /\ \/ UNCHANGED cache
         \/ c.method = "update_dbs" /\ \E some \in SUBSET c.args : Refresh({v.db : v \in some})
      /\ UNCHANGED <<life, owner, registered, views, result>>

--------------------------------------------------------------------------------
(* Back in the wrapper                                                         *)

\* Pointers become views.
Yield(t, new) ==
  /\ Cardinality(views \cup new) <= MaxViews
  /\ views' = views \cup new

\* Seeded bug: a null database pointer is taken for a Db.
ReturnUnchecked(t) ==
  LET c == call[t]
  IN  /\ c.method \in {"option", "local_db", "register_syncdb", "update_dbs"}
      /\ Yield(t, IF c.method = "local_db"
                  THEN {[DbView(c.handle, Local, FALSE) EXCEPT
                           !.db = IF c.rc < 0 THEN <<c.handle, "null">> ELSE @]}
                  ELSE {})
      /\ Return(t, c.method, "Ok", NoError)

\* Methods whose failure is an Err with last_error(), read after the call.
ReturnChecked(t) ==
  LET c == call[t]
  IN  /\ c.method \in {"option", "local_db", "register_syncdb", "update_dbs"}
      /\ \/ /\ c.rc >= 0
            /\ Yield(t, CASE c.method = "local_db" -> {DbView(c.handle, Local, FALSE)}
                          [] c.method = "register_syncdb" -> {DbView(c.handle, c.repo, TRUE)}
                          [] OTHER -> {})
            /\ Return(t, c.method, "Ok", NoError)
         \/ /\ c.rc < 0
            /\ Return(t, c.method, "Err", errno[c.handle])
            /\ UNCHANGED views

\* A null list is an empty Vec, whatever made it null.
ReturnList(t) ==
  LET c == call[t]
  IN  /\ c.method \in {"sync_dbs", "check", "packages"}
      /\ \/ /\ c.rc >= 0
            /\ Yield(t, CASE c.method = "sync_dbs" -> {DbView(c.handle, r, FALSE) : r \in registered[c.handle]}
                          [] c.method = "packages" -> {PkgView(v, c.handle) : v \in c.args}
                          [] OTHER -> {})
         \/ c.rc < 0 /\ UNCHANGED views
      /\ Return(t, c.method, "Ok", NoError)

\* A null package is None: not there, or not to be found out.
ReturnPackage(t) ==
  LET c == call[t]
  IN  /\ c.method \in {"get_pkg", "find_dbs_satisfier"}
      /\ \/ /\ c.rc >= 0
            /\ \E v \in c.args : Yield(t, {PkgView(v, c.handle)})
            /\ Return(t, c.method, "Ok", NoError)
         \/ c.rc < 0 /\ Return(t, c.method, "None", NoError) /\ UNCHANGED views

\* search has an error of its own making.
ReturnSearch(t) ==
  LET c == call[t]
  IN  /\ c.method = "search"
      /\ \/ /\ c.rc >= 0
            /\ \E some \in SUBSET c.args : Yield(t, {PkgView(v, c.handle) : v \in some})
            /\ Return(t, c.method, "Ok", NoError)
         \/ c.rc < 0 /\ Return(t, c.method, "Err", Invalid) /\ UNCHANGED views

Finish(t) ==
  /\ call[t].at = "wrapper"
  /\ ReturnChecked(t) \/ ReturnList(t) \/ ReturnPackage(t) \/ ReturnSearch(t)

--------------------------------------------------------------------------------
OnHandle(t, h) ==
  \/ Initialize(t, h) \/ Release(t, h) \/ \E u \in Threads \ {t} : Move(t, h, u)
  \/ \E r \in Repos : \/ Option(t, h, r) \/ RegisterSyncdb(t, h, r)
                      \/ LocalDb(t, h, r) \/ SyncDbs(t, h, r) \/ UpdateDbs(t, h, r)
                      \/ Check(t, h, r) \/ FindDbsSatisfier(t, h, r)

OnDb(t, v) == \E r \in Repos : GetPkg(t, v, r) \/ Packages(t, v, r) \/ Search(t, v, r)

Next ==
  \E t \in Threads :
    \/ \E h \in Handles : OnHandle(t, h)
    \/ \E v \in Held(t) : Forget(t, v)
    \/ \E v \in HeldDbs(t) : OnDb(t, v)
    \/ Succeed(t) \/ \E e \in Errors : Fail(t, e)
    \/ Finish(t)

Spec == Init /\ [][Next]_vars

--------------------------------------------------------------------------------
(* Properties                                                                  *)

TypeOK ==
  /\ life \in [Handles -> {"none", "open", "released"}]
  /\ owner \in [Handles -> Threads \cup {Nobody}]
  /\ registered \in [Handles -> SUBSET Repos]
  /\ errno \in [Handles -> Errors \cup {NoError}]
  /\ cache \in [Databases -> 0 .. MaxRefresh]
  /\ views \subseteq View
  /\ call \in [Threads -> InMethod \cup {Idle}]
  /\ result \in [Threads -> Returned \cup {Nothing}]

\* A view never outlives the context that owns what it points at, wherever a
\* call combines several (db.rs:3-8, handle.rs:212-216).
ContextOpen == \A v \in views : life[HandleOf(v)] = "open"

\* The cache a Package points into is not replaced while the Package is alive
\* (pkg.rs:29-32, list.rs:29-36).
CacheKept == \A v \in views : v.kind = "pkg" => v.cache = cache[v.db]

Touches(c) == {c.handle} \cup {HandleOf(v) : v \in c.args}

\* libalpm is never in two threads with one context, which it does not
\* support (handle.rs:25-30).
OneAtATime ==
  \A t, u \in Threads :
    t # u /\ call[t].at = "libalpm" /\ call[u].at = "libalpm" =>
      Touches(call[t]) \cap Touches(call[u]) = {}

\* The errno in an Err is the one of the call that failed, although it is read
\* from the context in a second call (handle.rs:229-240, and 46-51 of
\* initialize, which has no context to read it from); search has none.
ErrIsOwn ==
  \A t \in Threads :
    result[t] # Nothing /\ result[t].value = "Err" /\ result[t].method # "search" =>
      result[t].errno = IF result[t].rc < 0 THEN result[t].cause ELSE Invalid

\* The NyxError an AlpmError becomes.
NyxErrorFrom(err) == [category |-> "Alpm", source |-> err]

\* What core error.rs:22 and 30 say: Alpm is for an underlying libalpm call
\* that failed, InvalidInput for input that "failed validation before reaching
\* lower layers".
CategoryIsCause ==
  \A t \in Threads :
    result[t] # Nothing /\ result[t].value = "Err" =>
      NyxErrorFrom(result[t].errno).category = IF result[t].rc < 0 THEN "Alpm" ELSE "InvalidInput"

\* What handle.rs:133-134 says of update_dbs: "a positive/negative return from
\* libalpm both map to Err".
UpdateCodeIsErr ==
  \A t \in Threads :
    result[t] # Nothing /\ result[t].method = "update_dbs" /\ result[t].rc # 0 =>
      result[t].value = "Err"
===============================================================================
