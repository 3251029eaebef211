---------------------------- MODULE Connect_proofs ----------------------------
(***************************************************************************)
(* Proofs about connecting, for any numbers, requests, forms and numbers   *)
(* of addresses: ConnectInv is inductive.  Every action concerns one       *)
(* request and one number, so what it has to establish is Fits for these   *)
(* two, and FitsSuffices does the rest.                                    *)
(***************************************************************************)
EXTENDS Connect, TLAPS

Request == [state : {"idle", "trying", "up", "down", "closed"},
            form  : Forms \union {"none"},
            n     : 0..MaxAddr,
            fd    : Fds \union {NoFd},
            ret   : Fds \union {NoFd},
            early : {"calling", "none", "up", "down"},
            told  : [Results -> 0..(MaxAddr + 1)]]

Tables == [entry : [Fds -> {"none", "CONNECT", "callbacks"}], armed : [Fds -> BOOLEAN],
           closing : SUBSET Fds]

\* The table v is u with the entry e for fd, armed or not, and c to be closed.
Becomes(u, v, fd, e, a, c) ==
    /\ v \in Tables /\ v.entry[fd] = e /\ v.armed[fd] = a /\ v.closing = c
    /\ \A g \in Fds \ {fd} : v.entry[g] = u.entry[g] /\ v.armed[g] = u.armed[g]

\* What ConnectInv says of the request r whose socket has the number fd.
Fits(r, fd) ==
    /\ req[r].fd = fd /\ req[r].state # "idle"
    /\ req[r].form # "sync_name" => OneResult(r)
    /\ req[r].state = "trying" =>
          /\ req[r].early # "calling" /\ \A x \in Results : req[r].told[x] = 0
          /\ req[r].form \in {"async", "async_addr"}
    /\ req[r].form # "timeout" /\ req[r].state \in {"trying", "up"} =>
          /\ t.armed[fd] /\ fd \notin t.closing
          /\ t.entry[fd] = IF req[r].state = "trying" THEN "CONNECT" ELSE "callbacks"
    /\ req[r].form # "timeout" /\ req[r].state \notin {"trying", "up"} => fd \in t.closing
    /\ t.entry[fd] # "none" =>
          /\ req[r].form # "timeout"
          /\ req[r].state = IF t.entry[fd] = "CONNECT" THEN "trying" ELSE "up"
    /\ fd \in t.closing => req[r].state \in {"down", "closed"} /\ t.entry[fd] = "none"

\* The numbers are not the one that stands for none, and there are addresses.
LEMMA ConstantFacts ==
    /\ NoFd \notin Fds
    /\ NoReq \notin Reqs
    /\ MaxAddr \in Nat /\ MaxAddr >= 1
  BY FdsAssumption, MaxAddrAssumption, NoReqAssumption DEF NoFd

\* The inductive invariant holds before the first connect.
LEMMA ConnectInit == Init => ConnectInv
  <1> SUFFICES ASSUME Init PROVE ConnectInv
    OBVIOUS
  <1>1. 0 \in 0..MaxAddr /\ 0 \in 0..(MaxAddr + 1)
    BY ConstantFacts
  <1>2. TypeOK
    BY <1>1 DEF Init, TypeOK
  <1>3. \A r \in Reqs : /\ req[r].state = "idle" /\ req[r].early = "calling"
                        /\ req[r].form = "none"
                        /\ \A x \in Results : req[r].told[x] = 0
    BY DEF Init
  <1>4. \A fd \in Fds : owner[fd] = NoReq /\ t.entry[fd] = "none"
    BY DEF Init
  <1>5. t.closing = {}
    BY DEF Init
  <1>6. ToldOnce
    BY <1>3 DEF ToldOnce, OneResult, Times, Results
  <1>7. HasItsNumber /\ NothingLeftBehind
    BY <1>3, <1>4 DEF HasItsNumber, NothingLeftBehind
  <1>8. IdleIsUntouched /\ TryingIsUntold
    BY <1>3, <1>4, ConstantFacts DEF IdleIsUntouched, TryingIsUntold
  <1>9. OwnersAgree /\ EntriesAgree /\ ClosingIsOver
    BY <1>3, <1>4, <1>5 DEF OwnersAgree, EntriesAgree, ClosingIsOver
  <1> QED BY <1>2, <1>6, <1>7, <1>8, <1>9 DEF ConnectInv

\* A number that is free has no callbacks and no close pending.
LEMMA FreeIsUnused ==
    ASSUME ConnectInv, NEW fd \in Free
    PROVE  fd \in Fds /\ owner[fd] = NoReq /\ t.entry[fd] = "none" /\ fd \notin t.closing
  BY DEF Free, ConnectInv, EntriesAgree, ClosingIsOver

\* A request that has its number fits it.
LEMMA OwnerFits ==
    ASSUME ConnectInv, NEW r \in Reqs, NEW fd \in Fds, owner[fd] = r
    PROVE  Fits(r, fd)
  <1>1. r # NoReq
    BY ConstantFacts
  <1>2. req[r].fd = fd /\ req[r].state # "idle"
    BY <1>1 DEF ConnectInv, OwnersAgree, IdleIsUntouched
  <1>3. req[r].form # "sync_name" => OneResult(r)
    BY DEF ConnectInv, ToldOnce
  <1> QED BY <1>1, <1>2, <1>3
       DEF ConnectInv, TypeOK, TryingIsUntold, HasItsNumber, NothingLeftBehind, EntriesAgree,
           ClosingIsOver, Fits

\* A step that concerns one request and its number preserves the invariant if
\* the two fit afterwards.
LEMMA FitsSuffices ==
    ASSUME ConnectInv, TypeOK', NEW r \in Reqs, NEW fd \in Fds,
           owner[fd] = r \/ (owner[fd] = NoReq /\ req[r].state = "idle"),
           owner' = [owner EXCEPT ![fd] = r],
           \A g \in Fds \ {fd} : /\ t'.entry[g] = t.entry[g] /\ t'.armed[g] = t.armed[g]
                                 /\ g \in t'.closing <=> g \in t.closing,
           \A s \in Reqs \ {r} : req'[s] = req[s],
           Fits(r, fd)'
    PROVE  ConnectInv'
  <1>1. r # NoReq /\ owner'[fd] = r /\ \A g \in Fds \ {fd} : owner'[g] = owner[g]
    BY ConstantFacts DEF ConnectInv, TypeOK
  <1>2. \A g \in Fds \ {fd} : owner[g] # r
    BY <1>1 DEF ConnectInv, OwnersAgree, IdleIsUntouched
  <1>3. \A s \in Reqs \ {r} : owner[fd] # s
    BY ConstantFacts
  <1>4. ToldOnce'
    BY DEF ConnectInv, ToldOnce, OneResult, Times, Fits
  <1>5. HasItsNumber'
    <2> SUFFICES ASSUME NEW s \in Reqs, req'[s].form # "timeout", req'[s].state \in {"trying", "up"}
                 PROVE  /\ owner'[req'[s].fd] = s /\ t'.armed[req'[s].fd]
                        /\ req'[s].fd \notin t'.closing
                        /\ t'.entry[req'[s].fd]
                              = IF req'[s].state = "trying" THEN "CONNECT" ELSE "callbacks"
      BY DEF HasItsNumber
    <2>1. CASE s = r
      BY <2>1, <1>1 DEF Fits
    <2>2. CASE s # r
      <3>1. req'[s] = req[s] /\ req[s].fd \in Fds /\ owner[req[s].fd] = s
        BY <2>2 DEF ConnectInv, HasItsNumber, OwnersAgree
      <3>2. req[s].fd # fd
        BY <2>2, <3>1, <1>3
      <3> QED BY <3>1, <3>2, <1>1 DEF ConnectInv, HasItsNumber
    <2> QED BY <2>1, <2>2
  <1>6. ASSUME NEW g \in Fds, g # fd, owner[g] # NoReq
        PROVE  /\ owner'[g] = owner[g] /\ owner[g] \in Reqs \ {r}
               /\ req'[owner[g]] = req[owner[g]]
    BY <1>6, <1>1, <1>2 DEF ConnectInv, TypeOK
  <1>7. NothingLeftBehind'
    <2> SUFFICES ASSUME NEW g \in Fds
                 PROVE  /\ owner'[g] # NoReq /\ req'[owner'[g]].form # "timeout" =>
                              \/ req'[owner'[g]].state \in {"trying", "up"} /\ req'[owner'[g]].fd = g
                              \/ req'[owner'[g]].state \in {"down", "closed"} /\ g \in t'.closing
                        /\ t'.entry[g] # "none" => owner'[g] # NoReq
      BY DEF NothingLeftBehind
    <2>1. CASE g = fd
      BY <2>1, <1>1 DEF Fits
    <2>2. CASE g # fd
      BY <2>2, <1>1, <1>6 DEF ConnectInv, NothingLeftBehind
    <2> QED BY <2>1, <2>2
  <1>8. IdleIsUntouched' /\ TryingIsUntold'
    BY <1>1, <1>3 DEF ConnectInv, IdleIsUntouched, TryingIsUntold, Fits
  <1>9. OwnersAgree'
    BY <1>1, <1>6 DEF ConnectInv, OwnersAgree, Fits
  <1>10. EntriesAgree'
    <2>1. ASSUME NEW g \in Fds, t'.entry[g] # "none", g # fd PROVE owner[g] # NoReq /\ t.entry[g] # "none"
      BY <2>1 DEF ConnectInv, EntriesAgree
    <2> QED BY <1>1, <1>6, <2>1 DEF ConnectInv, EntriesAgree, Fits
  <1>11. ClosingIsOver'
    <2>1. t'.closing \subseteq Fds
      BY DEF TypeOK
    <2>2. ASSUME NEW g \in t'.closing, g # fd PROVE g \in t.closing /\ owner[g] # NoReq
      BY <2>1, <2>2 DEF ConnectInv, ClosingIsOver
    <2> QED BY <1>1, <1>6, <2>1, <2>2 DEF ConnectInv, ClosingIsOver, Fits
  <1> QED BY <1>4, <1>5, <1>7, <1>8, <1>9, <1>10, <1>11 DEF ConnectInv

\* A request that has failed before it had a number disturbs nobody.
LEMMA FailsWithoutNumber ==
    ASSUME ConnectInv, TypeOK', NEW r \in Reqs, req[r].state = "idle",
           UNCHANGED <<owner, t>>,
           \A s \in Reqs \ {r} : req'[s] = req[s],
           req'[r].state = "down",
           req'[r].form # "sync_name" => OneResult(r)'
    PROVE  ConnectInv'
  <1>1. \A fd \in Fds : owner[fd] # r
    BY DEF ConnectInv, IdleIsUntouched
  <1>2. \A fd \in Fds : owner[fd] # NoReq => owner[fd] \in Reqs /\ req'[owner[fd]] = req[owner[fd]]
    BY <1>1 DEF ConnectInv, TypeOK
  <1>3. t.closing \subseteq Fds
    BY DEF ConnectInv, TypeOK
  <1>4. ToldOnce'
    BY DEF ConnectInv, ToldOnce, OneResult, Times
  <1>5. HasItsNumber'
    BY DEF ConnectInv, HasItsNumber
  <1>6. NothingLeftBehind' /\ OwnersAgree'
    BY <1>2 DEF ConnectInv, NothingLeftBehind, OwnersAgree
  <1>7. IdleIsUntouched' /\ TryingIsUntold'
    BY DEF ConnectInv, IdleIsUntouched, TryingIsUntold
  <1>8. EntriesAgree' /\ ClosingIsOver'
    BY <1>2, <1>3 DEF ConnectInv, EntriesAgree, ClosingIsOver
  <1> QED BY <1>4, <1>5, <1>6, <1>7, <1>8 DEF ConnectInv

-----------------------------------------------------------------------------
(* The asynchronous forms.                                                 *)

\* What connect returns leaves the request's number and result alone.
LEMMA ReturnFacts ==
    ASSUME NEW q \in Request, NEW fd \in Fds, q.state \in {"trying", "up", "down"}
    PROVE  LET p == Return(q, fd) IN
           /\ p \in Request
           /\ p.state = q.state /\ p.form = q.form /\ p.n = q.n /\ p.fd = q.fd /\ p.told = q.told
           /\ p.early # "calling"
  BY DEF Return, Request

\* The caller of a request that has told nothing is told one result.
LEMMA TellFacts ==
    ASSUME NEW q \in Request, \A x \in Results : q.told[x] = 0,
           NEW result \in Results, NEW state \in {"up", "down", "closed"}
    PROVE  LET p == Tell(q, result, state) IN
           /\ p \in Request /\ Times(p) = 1
           /\ p.state = state /\ p.form = q.form /\ p.n = q.n /\ p.fd = q.fd /\ p.early = q.early
           /\ \A x \in Results : p.told[x] = IF x = result THEN 1 ELSE 0
  <1> DEFINE p == Tell(q, result, state)
  <1>1. 1 \in 0..(MaxAddr + 1)
    BY ConstantFacts
  <1>2. p.told = [q.told EXCEPT ![result] = q.told[result] + 1] /\ q.told \in [Results -> 0..(MaxAddr + 1)]
    BY DEF Tell, Request
  <1>3. \A x \in Results : p.told[x] = IF x = result THEN 1 ELSE 0
    BY <1>2
  <1>4. p.told \in [Results -> 0..(MaxAddr + 1)]
    BY <1>1, <1>2
  <1>5. p \in Request /\ p.state = state /\ p.form = q.form /\ p.n = q.n /\ p.fd = q.fd
        /\ p.early = q.early
    BY <1>4 DEF Tell, Request
  <1>6. Times(p) = 1
    BY <1>3 DEF Times, Results
  <1> QED BY <1>3, <1>5, <1>6

\* What the ways to change an entry make of the table.
LEMMA TableFacts ==
    ASSUME t \in Tables, NEW fd \in Fds
    PROVE  /\ Becomes(t, [t EXCEPT !.entry[fd] = "CONNECT", !.armed[fd] = TRUE],
                      fd, "CONNECT", TRUE, t.closing)
           /\ Becomes(t, watch(unwatch(t, fd), fd, "callbacks"), fd, "callbacks", TRUE, t.closing)
           /\ t.entry[fd] = "none" \/ t.armed[fd] =>
                 Becomes(t, watch(t, fd, "callbacks"), fd, "callbacks", TRUE, t.closing)
           /\ Becomes(t, force_close(t, fd), fd, "none", FALSE, t.closing \union {fd})
  <1>1. Becomes(t, [t EXCEPT !.entry[fd] = "CONNECT", !.armed[fd] = TRUE],
                fd, "CONNECT", TRUE, t.closing)
    BY DEF Tables, Becomes
  <1>2. ASSUME NEW u \in Tables, u.entry[fd] = "none" \/ u.armed[fd]
        PROVE  Becomes(u, watch(u, fd, "callbacks"), fd, "callbacks", TRUE, u.closing)
    BY <1>2 DEF Tables, Becomes, watch
  <1>3. Becomes(t, unwatch(t, fd), fd, "none", FALSE, t.closing)
    BY DEF Tables, Becomes, unwatch
  <1>4. Becomes(t, watch(unwatch(t, fd), fd, "callbacks"), fd, "callbacks", TRUE, t.closing)
    <2> DEFINE u == unwatch(t, fd)
    <2>1. u \in Tables /\ u.entry[fd] = "none" /\ u.closing = t.closing
      BY <1>3 DEF Becomes
    <2>2. Becomes(u, watch(u, fd, "callbacks"), fd, "callbacks", TRUE, u.closing)
      BY <1>2, <2>1
    <2> QED BY <1>3, <2>1, <2>2 DEF Becomes
  <1>5. Becomes(t, force_close(t, fd), fd, "none", FALSE, t.closing \union {fd})
    <2> DEFINE u == unwatch(t, fd)
    <2>1. u \in Tables /\ u.closing = t.closing
      BY <1>3 DEF Becomes
    <2>2. force_close(t, fd) = [u EXCEPT !.closing = u.closing \union {fd}]
      BY DEF force_close
    <2> HIDE DEF u
    <2>3. /\ force_close(t, fd) \in Tables /\ force_close(t, fd).entry = u.entry
          /\ force_close(t, fd).armed = u.armed /\ force_close(t, fd).closing = t.closing \union {fd}
      BY <2>1, <2>2 DEF Tables
    <2> QED BY <1>3, <2>3 DEF Becomes, u
  <1> QED BY <1>1, <1>2, <1>4, <1>5

\* A request that ends up with its number, told one result or trying still,
\* and a table that says the same of the number, preserve the invariant.
LEMMA OutcomeStep ==
    ASSUME ConnectInv, NEW r \in Reqs, NEW fd \in Fds, NEW q \in Request, NEW j \in 0..MaxAddr,
           owner[fd] = r \/ (owner[fd] = NoReq /\ req[r].state = "idle"),
           fd \notin t.closing,
           owner' = [owner EXCEPT ![fd] = r],
           tries' = [tries EXCEPT ![fd] = j],
           req' = [req EXCEPT ![r] = q],
           q.fd = fd, q.form # "timeout",
           \/ /\ q.state = "trying" /\ q.early # "calling" /\ q.form \in {"async", "async_addr"}
              /\ \A x \in Results : q.told[x] = 0
              /\ Becomes(t, t', fd, "CONNECT", TRUE, t.closing)
           \/ /\ q.state = "up" /\ (q.form # "sync_name" => Times(q) = 1)
              /\ Becomes(t, t', fd, "callbacks", TRUE, t.closing)
           \/ /\ q.state \in {"down", "closed"} /\ (q.form # "sync_name" => Times(q) = 1)
              /\ Becomes(t, t', fd, "none", FALSE, t.closing \union {fd})
    PROVE  ConnectInv'
  <1>1. /\ TypeOK' /\ owner'[fd] = r /\ req'[r] = q
        /\ \A s \in Reqs \ {r} : req'[s] = req[s]
    <2>1. t' \in Tables
      BY DEF Becomes
    <2>2. /\ owner \in [Fds -> Reqs \union {NoReq}] /\ tries \in [Fds -> 0..MaxAddr]
          /\ req \in [Reqs -> Request]
      BY DEF ConnectInv, TypeOK, Request
    <2>3. /\ owner' \in [Fds -> Reqs \union {NoReq}] /\ tries' \in [Fds -> 0..MaxAddr]
          /\ req' \in [Reqs -> Request]
      BY <2>2
    <2>4. TypeOK'
      BY <2>1, <2>3 DEF TypeOK, Request, Tables
    <2> QED BY <2>2, <2>4
  <1>2. req'[r].form # "sync_name" => OneResult(r)'
    <2>1. (\A x \in Results : q.told[x] = 0) => Times(q) = 0
      BY DEF Times, Results
    <2>2. q.form # "sync_name" => Times(q) \in {0, 1} /\ (q.state = "trying" => Times(q) = 0)
      BY <2>1
    <2> QED BY <1>1, <2>2 DEF OneResult
  <1>3. Fits(r, fd)'
    <2>1. CASE q.state = "trying"
      BY <1>1, <1>2, <2>1 DEF Fits, Becomes
    <2>2. CASE q.state = "up"
      BY <1>1, <1>2, <2>2 DEF Fits, Becomes
    <2>3. CASE q.state \in {"down", "closed"}
      BY <1>1, <1>2, <2>3 DEF Fits, Becomes
    <2> QED BY <2>1, <2>2, <2>3
  <1>4. \A g \in Fds \ {fd} : /\ t'.entry[g] = t.entry[g] /\ t'.armed[g] = t.armed[g]
                              /\ g \in t'.closing <=> g \in t.closing
    BY DEF Becomes
  <1> QED BY <1>1, <1>3, <1>4, FitsSuffices

\* From the call and from CONNECT_NG alike, trying the addresses that are left
\* ends with an attempt in progress, a connection or a closed number.
LEMMA AttemptsStep ==
    ASSUME ConnectInv, NEW r \in Reqs, NEW fd \in Fds, NEW q \in Request, NEW k \in Nat,
           owner[fd] = r \/ (owner[fd] = NoReq /\ req[r].state = "idle"),
           fd \notin t.closing,
           owner' = [owner EXCEPT ![fd] = r],
           q.fd = fd, q.form \in {"async", "async_addr"},
           \A x \in Results : q.told[x] = 0,
           attempts(q, fd, k)
    PROVE  ConnectInv'
  <1>0. owner'[fd] = r /\ t \in Tables /\ q.n \in 0..MaxAddr /\ t.closing \subseteq Fds
    BY DEF ConnectInv, TypeOK, Request, Tables
  <1>1. PICK j \in 0..MaxAddr : tries' = [tries EXCEPT ![fd] = j]
    BY <1>0, ConstantFacts DEF attempts
  <1>2. CASE attempt(q, fd)
    <2> DEFINE p == [q EXCEPT !.state = "trying"]
    <2>1. p \in Request /\ p.state = "trying" /\ p.form = q.form /\ p.fd = q.fd /\ p.told = q.told
      BY DEF Request
    <2>2. req' = [req EXCEPT ![r] = Return(p, fd)]
      BY <1>0, <1>2 DEF attempt
    <2> HIDE DEF p
    <2> DEFINE z == Return(p, fd)
    <2>3. /\ z \in Request /\ z.state = "trying" /\ z.form = q.form /\ z.fd = fd
          /\ z.told = q.told /\ z.early # "calling"
      BY <2>1, ReturnFacts
    <2>4. Becomes(t, t', fd, "CONNECT", TRUE, t.closing)
      BY <1>0, <1>2, TableFacts DEF attempt
    <2> HIDE DEF z
    <2>5. req' = [req EXCEPT ![r] = z]
      BY <2>2 DEF z
    <2>6. z.form # "timeout" /\ z.form \in {"async", "async_addr"} /\ \A x \in Results : z.told[x] = 0
      BY <2>3
    <2> QED BY <2>6, <1>0, <1>1, <2>3, <2>4, <2>5, OutcomeStep
  <1>3. CASE attempt_ok(q, fd)
    <2> DEFINE p == Tell(q, "OK", "up")
    <2>1. p \in Request /\ p.state = "up" /\ p.form = q.form /\ p.fd = q.fd /\ Times(p) = 1
      BY TellFacts DEF Results
    <2> HIDE DEF p
    <2> DEFINE z == Return(p, fd)
    <2>2. /\ z \in Request /\ z.state = "up" /\ z.form = q.form /\ z.fd = fd /\ Times(z) = 1
      BY <2>1, ReturnFacts DEF Times
    <2>3. req' = [req EXCEPT ![r] = z]
      BY <1>0, <1>3 DEF attempt_ok, p
    <2>4. Becomes(t, t', fd, "callbacks", TRUE, t.closing)
      BY <1>0, <1>3, TableFacts DEF attempt_ok
    <2> HIDE DEF z
    <2> QED BY <1>0, <1>1, <2>2, <2>3, <2>4, OutcomeStep
  <1>4. CASE attempts_fail(q, fd)
    <2> DEFINE p == Tell(q, "NG", "down")
    <2>1. p \in Request /\ p.state = "down" /\ p.form = q.form /\ p.fd = q.fd /\ Times(p) = 1
      BY TellFacts DEF Results
    <2> HIDE DEF p
    <2> DEFINE z == Return(p, fd)
    <2>2. /\ z \in Request /\ z.state = "down" /\ z.form = q.form /\ z.fd = fd /\ Times(z) = 1
      BY <2>1, ReturnFacts DEF Times
    <2>3. req' = [req EXCEPT ![r] = z]
      BY <1>0, <1>4 DEF attempts_fail, p
    <2>4. Becomes(t, t', fd, "none", FALSE, t.closing \union {fd})
      BY <1>0, <1>4, TableFacts DEF attempts_fail
    <2> HIDE DEF z
    <2> QED BY <1>0, <1>1, <2>2, <2>3, <2>4, OutcomeStep
  <1> QED BY <1>2, <1>3, <1>4 DEF attempts

-----------------------------------------------------------------------------
(* The actions.                                                            *)

\* connect by name or address, asynchronously.
LEMMA ConnectAsyncStep ==
    ASSUME ConnectInv, NEW r \in Reqs, NEW fd \in Fds, NEW n \in 1..MaxAddr, NEW form \in Forms,
           connect_async(r, form, fd, n)
    PROVE  ConnectInv'
  <1> DEFINE q == [New(r, form, n) EXCEPT !.fd = fd]
  <1>1. req[r] \in Request /\ n \in 0..MaxAddr
    BY ConstantFacts DEF ConnectInv, TypeOK, Request
  <1>2. q \in Request /\ q.fd = fd /\ q.form = form /\ q.told = req[r].told
    BY <1>1 DEF New, Request
  <1>3. /\ req[r].state = "idle" /\ form \in {"async", "async_addr"}
        /\ owner' = [owner EXCEPT ![fd] = r] /\ attempts(q, fd, 0)
        /\ owner[fd] = NoReq /\ fd \notin t.closing
    BY FreeIsUnused DEF connect_async, Starts, IsLowest
  <1>4. \A x \in Results : q.told[x] = 0
    BY <1>2, <1>3 DEF ConnectInv, IdleIsUntouched
  <1> HIDE DEF q
  <1> QED BY <1>2, <1>3, <1>4, AttemptsStep

\* connect by address, blocking.
LEMMA ConnectSyncStep ==
    ASSUME ConnectInv, NEW r \in Reqs, NEW fd \in Fds, connect_sync(r, fd)
    PROVE  ConnectInv'
  <1>0. /\ req[r].state = "idle" /\ owner[fd] = NoReq /\ fd \notin t.closing
        /\ t.entry[fd] = "none" /\ "sync" \in Forms
    BY FreeIsUnused DEF connect_sync, Starts, IsLowest
  <1>1. t \in Tables /\ req \in [Reqs -> Request] /\ 1 \in 0..MaxAddr
    BY ConstantFacts DEF ConnectInv, TypeOK, Request, Tables
  <1> DEFINE p == New(r, "sync", 1)
  <1>2. /\ p \in Request /\ p.form = "sync"
        /\ \A x \in Results : p.told[x] = 0
    <2>1. p \in Request /\ p.form = "sync" /\ p.told = req[r].told
      BY <1>0, <1>1 DEF New, Request
    <2> QED BY <1>0, <2>1 DEF ConnectInv, IdleIsUntouched
  <1> HIDE DEF p
  <1>3. CASE owner' = [owner EXCEPT ![fd] = r] /\ tries' = [tries EXCEPT ![fd] = 1]
             /\ t' = watch(t, fd, "callbacks")
             /\ req' = [req EXCEPT ![r] = [Tell(p, "OK", "up") EXCEPT !.fd = fd, !.ret = fd, !.early = "up"]]
    <2> DEFINE z == [Tell(p, "OK", "up") EXCEPT !.fd = fd, !.ret = fd, !.early = "up"]
    <2>1. z \in Request /\ z.fd = fd /\ z.state = "up" /\ z.form = "sync" /\ Times(z) = 1
      <3>1. /\ Tell(p, "OK", "up") \in Request /\ Tell(p, "OK", "up").state = "up"
            /\ Tell(p, "OK", "up").form = "sync" /\ Times(Tell(p, "OK", "up")) = 1
        BY <1>2, TellFacts DEF Results
      <3> QED BY <3>1 DEF Request, Times
    <2>2. req' = [req EXCEPT ![r] = z]
      BY <1>3
    <2> HIDE DEF z
    <2>3. Becomes(t, t', fd, "callbacks", TRUE, t.closing)
      BY <1>0, <1>1, <1>3, TableFacts
    <2> QED BY <1>0, <1>1, <1>3, <2>1, <2>2, <2>3, OutcomeStep
  <1>4. CASE req' = [req EXCEPT ![r] = [Tell(p, "NG", "down") EXCEPT !.early = "down"]]
             /\ UNCHANGED <<owner, tries, t>>
    <2> DEFINE z == [Tell(p, "NG", "down") EXCEPT !.early = "down"]
    <2>1. z \in Request /\ z.state = "down" /\ z.form = "sync" /\ Times(z) = 1
      <3>1. /\ Tell(p, "NG", "down") \in Request /\ Tell(p, "NG", "down").state = "down"
            /\ Tell(p, "NG", "down").form = "sync" /\ Times(Tell(p, "NG", "down")) = 1
        BY <1>2, TellFacts DEF Results
      <3> QED BY <3>1 DEF Request, Times
    <2>2. req' = [req EXCEPT ![r] = z]
      BY <1>4
    <2> HIDE DEF z
    <2>3. req'[r] = z /\ req' \in [Reqs -> Request] /\ \A s \in Reqs \ {r} : req'[s] = req[s]
      BY <1>1, <2>1, <2>2
    <2>4. TypeOK'
      BY <1>4, <2>3 DEF ConnectInv, TypeOK, Request
    <2>5. OneResult(r)'
      BY <2>1, <2>3 DEF OneResult
    <2> QED BY <1>0, <1>4, <2>1, <2>3, <2>4, <2>5, FailsWithoutNumber
  <1> QED BY <1>3, <1>4 DEF connect_sync, p

\* connect by name, blocking.
LEMMA ConnectSyncNameStep ==
    ASSUME ConnectInv, NEW r \in Reqs, NEW fd \in Fds, NEW n \in 1..MaxAddr,
           connect_sync_name(r, fd, n)
    PROVE  ConnectInv'
  <1>0. /\ req[r].state = "idle" /\ owner[fd] = NoReq /\ fd \notin t.closing
        /\ t.entry[fd] = "none" /\ "sync_name" \in Forms
    BY FreeIsUnused DEF connect_sync_name, Starts, IsLowest
  <1>1. t \in Tables /\ req \in [Reqs -> Request] /\ n \in 0..MaxAddr
    BY ConstantFacts DEF ConnectInv, TypeOK, Request, Tables
  <1> DEFINE p == New(r, "sync_name", n)
  <1>2. p \in Request /\ p.form = "sync_name" /\ \A x \in Results : p.told[x] = 0
    <2>1. p \in Request /\ p.form = "sync_name" /\ p.told = req[r].told
      BY <1>0, <1>1 DEF New, Request
    <2> QED BY <1>0, <2>1 DEF ConnectInv, IdleIsUntouched
  <1> HIDE DEF p
  <1>3. ASSUME NEW j \in 1..n,
               owner' = [owner EXCEPT ![fd] = r], tries' = [tries EXCEPT ![fd] = j],
               t' = watch(t, fd, "callbacks"),
               req' = [req EXCEPT ![r] = [Tell(p, "OK", "up")
                                             EXCEPT !.told["NG"] = j - 1,
                                                    !.fd = fd, !.ret = fd, !.early = "up"]]
        PROVE  ConnectInv'
    <2> DEFINE u == Tell(p, "OK", "up")
               z == [u EXCEPT !.told["NG"] = j - 1, !.fd = fd, !.ret = fd, !.early = "up"]
    <2>1. j \in 0..MaxAddr /\ j - 1 \in 0..(MaxAddr + 1)
      BY ConstantFacts
    <2>2. u \in Request /\ u.state = "up" /\ u.form = "sync_name"
      BY <1>2, TellFacts DEF Results
    <2>3. req' = [req EXCEPT ![r] = z]
      BY <1>3
    <2> HIDE DEF u
    <2>4. z \in Request /\ z.fd = fd /\ z.state = "up" /\ z.form = "sync_name"
      BY <2>1, <2>2 DEF Request
    <2> HIDE DEF z
    <2>5. Becomes(t, t', fd, "callbacks", TRUE, t.closing)
      BY <1>0, <1>1, <1>3, TableFacts
    <2> QED BY <1>0, <1>3, <2>1, <2>3, <2>4, <2>5, OutcomeStep
  <1>4. CASE req' = [req EXCEPT ![r] = [p EXCEPT !.told["NG"] = n + 1,
                                                 !.state = "down", !.early = "down"]]
             /\ UNCHANGED <<owner, tries, t>>
    <2> DEFINE z == [p EXCEPT !.told["NG"] = n + 1, !.state = "down", !.early = "down"]
    <2>1. n + 1 \in 0..(MaxAddr + 1)
      BY ConstantFacts
    <2>2. z \in Request /\ z.state = "down" /\ z.form = "sync_name"
      BY <1>2, <2>1 DEF Request
    <2>3. req' = [req EXCEPT ![r] = z]
      BY <1>4
    <2> HIDE DEF z
    <2>4. req'[r] = z /\ req' \in [Reqs -> Request] /\ \A s \in Reqs \ {r} : req'[s] = req[s]
      BY <1>1, <2>2, <2>3
    <2>5. TypeOK'
      BY <1>4, <2>4 DEF ConnectInv, TypeOK, Request
    <2> QED BY <1>0, <1>4, <2>2, <2>4, <2>5, FailsWithoutNumber
  <1> QED BY <1>3, <1>4 DEF connect_sync_name, p

\* connect with a timeout, which tells nobody and registers nothing.
LEMMA ConnectTimeoutStep ==
    ASSUME ConnectInv, NEW r \in Reqs, NEW fd \in Fds, connect_timeout(r, fd)
    PROVE  ConnectInv'
  <1>0. /\ req[r].state = "idle" /\ owner[fd] = NoReq /\ fd \notin t.closing
        /\ t.entry[fd] = "none" /\ "timeout" \in Forms /\ t' = t
    BY FreeIsUnused DEF connect_timeout, Starts, IsLowest
  <1>1. req \in [Reqs -> Request] /\ 1 \in 0..MaxAddr
    BY ConstantFacts DEF ConnectInv, TypeOK, Request
  <1> DEFINE p == New(r, "timeout", 1)
  <1>2. p \in Request /\ p.form = "timeout" /\ Times(p) = 0
    <2>1. p \in Request /\ p.form = "timeout" /\ p.told = req[r].told
      BY <1>0, <1>1 DEF New, Request
    <2> QED BY <1>0, <2>1 DEF ConnectInv, IdleIsUntouched, Times, Results
  <1> HIDE DEF p
  <1>3. ASSUME NEW state \in {"up", "down"},
               owner' = [owner EXCEPT ![fd] = r], tries' = [tries EXCEPT ![fd] = 1],
               req' = [req EXCEPT ![r] = [p EXCEPT !.state = state, !.fd = fd,
                                                   !.ret = fd, !.early = state]]
        PROVE  ConnectInv'
    <2> DEFINE z == [p EXCEPT !.state = state, !.fd = fd, !.ret = fd, !.early = state]
    <2>1. z \in Request /\ z.fd = fd /\ z.state = state /\ z.form = "timeout" /\ Times(z) = 0
      BY <1>2 DEF Request, Times
    <2>2. req' = [req EXCEPT ![r] = z]
      BY <1>3
    <2> HIDE DEF z
    <2>3. req'[r] = z /\ req' \in [Reqs -> Request] /\ \A s \in Reqs \ {r} : req'[s] = req[s]
      BY <1>1, <2>1, <2>2
    <2>4. TypeOK'
      BY <1>0, <1>1, <1>3, <2>3 DEF ConnectInv, TypeOK, Request
    <2>5. OneResult(r)'
      BY <2>1, <2>3 DEF OneResult
    <2>6. Fits(r, fd)'
      BY <1>0, <2>1, <2>3, <2>5 DEF Fits
    <2> QED BY <1>0, <1>3, <2>3, <2>4, <2>6, FitsSuffices
  <1>4. CASE req' = [req EXCEPT ![r] = [p EXCEPT !.state = "down", !.early = "down"]]
             /\ UNCHANGED <<owner, tries>>
    <2> DEFINE z == [p EXCEPT !.state = "down", !.early = "down"]
    <2>1. z \in Request /\ z.state = "down" /\ z.form = "timeout" /\ Times(z) = 0
      BY <1>2 DEF Request, Times
    <2>2. req' = [req EXCEPT ![r] = z]
      BY <1>4
    <2> HIDE DEF z
    <2>3. req'[r] = z /\ req' \in [Reqs -> Request] /\ \A s \in Reqs \ {r} : req'[s] = req[s]
      BY <1>1, <2>1, <2>2
    <2>4. TypeOK'
      BY <1>0, <1>4, <2>3 DEF ConnectInv, TypeOK, Request
    <2>5. OneResult(r)'
      BY <2>1, <2>3 DEF OneResult
    <2> QED BY <1>0, <1>4, <2>1, <2>3, <2>4, <2>5, FailsWithoutNumber
  <1> QED BY <1>3, <1>4 DEF connect_timeout, p

\* An event for a request that is trying, or a close, ends with one result.
LEMMA EventStep ==
    ASSUME ConnectInv, NEW r \in Reqs, NEW fd \in Fds,
           connect_ok(r, fd) \/ connect_ng(r, fd) \/ close_trying(r, fd)
    PROVE  ConnectInv'
  <1>1. owner[fd] = r /\ t.entry[fd] = "CONNECT"
    BY DEF connect_ok, connect_ng, close_trying, Trying
  <1>2. Fits(r, fd) /\ t \in Tables /\ req \in [Reqs -> Request] /\ tries \in [Fds -> 0..MaxAddr]
    BY <1>1, OwnerFits DEF ConnectInv, TypeOK, Request, Tables
  <1>3. /\ req[r] \in Request /\ req[r].fd = fd /\ req[r].state = "trying"
        /\ req[r].form \in {"async", "async_addr"} /\ req[r].form # "timeout"
        /\ \A x \in Results : req[r].told[x] = 0
        /\ fd \notin t.closing /\ t.armed[fd] /\ tries[fd] \in 0..MaxAddr
    BY <1>1, <1>2 DEF Fits
  <1>4. owner = [owner EXCEPT ![fd] = r] /\ tries = [tries EXCEPT ![fd] = tries[fd]]
    BY <1>1, <1>2 DEF ConnectInv, TypeOK
  <1>5. CASE connect_ok(r, fd)
    <2> DEFINE z == Tell(req[r], "OK", "up")
    <2>1. z \in Request /\ z.state = "up" /\ z.form = req[r].form /\ z.fd = fd /\ Times(z) = 1
      BY <1>3, TellFacts DEF Results
    <2>2. req' = [req EXCEPT ![r] = z] /\ owner' = owner /\ tries' = tries
      BY <1>5 DEF connect_ok
    <2>3. Becomes(t, t', fd, "callbacks", TRUE, t.closing)
      BY <1>2, <1>3, <1>5, TableFacts DEF connect_ok
    <2> HIDE DEF z
    <2> QED BY <1>1, <1>3, <1>4, <2>1, <2>2, <2>3, OutcomeStep
  <1>6. CASE connect_ng(r, fd)
    <2>1. attempts(req[r], fd, tries[fd]) /\ owner' = owner /\ tries[fd] \in Nat
      BY <1>3, <1>6 DEF connect_ng
    <2> QED BY <1>1, <1>3, <1>4, <2>1, AttemptsStep
  <1>7. CASE close_trying(r, fd)
    <2> DEFINE z == Tell(req[r], "GAME_OVER", "closed")
    <2>1. z \in Request /\ z.state = "closed" /\ z.form = req[r].form /\ z.fd = fd /\ Times(z) = 1
      BY <1>3, TellFacts DEF Results
    <2>2. req' = [req EXCEPT ![r] = z] /\ owner' = owner /\ tries' = tries
      BY <1>7 DEF close_trying
    <2>3. Becomes(t, t', fd, "none", FALSE, t.closing \union {fd})
      BY <1>2, <1>7, TableFacts DEF close_trying
    <2> HIDE DEF z
    <2> QED BY <1>1, <1>3, <1>4, <2>1, <2>2, <2>3, OutcomeStep
  <1> QED BY <1>5, <1>6, <1>7

\* The close of an established connection tells nobody.
LEMMA CloseStep ==
    ASSUME ConnectInv, NEW r \in Reqs, NEW fd \in Fds, close(r, fd)
    PROVE  ConnectInv'
  <1>1. owner[fd] = r /\ t.entry[fd] = "callbacks"
    BY DEF close
  <1>2. Fits(r, fd) /\ t \in Tables /\ req \in [Reqs -> Request]
    BY <1>1, OwnerFits DEF ConnectInv, TypeOK, Request, Tables
  <1> DEFINE z == [req[r] EXCEPT !.state = "closed"]
  <1>3. /\ z \in Request /\ z.state = "closed" /\ z.fd = fd /\ z.form = req[r].form
        /\ z.told = req[r].told /\ z.form # "timeout"
    BY <1>1, <1>2 DEF Fits, Request
  <1>4. req' = [req EXCEPT ![r] = z] /\ owner' = owner /\ tries' = tries
    BY <1>2 DEF close
  <1> HIDE DEF z
  <1>5. Becomes(t, t', fd, "none", FALSE, t.closing \union {fd})
    BY <1>2, TableFacts DEF close
  <1>6. req'[r] = z /\ req' \in [Reqs -> Request] /\ \A s \in Reqs \ {r} : req'[s] = req[s]
    BY <1>2, <1>3, <1>4
  <1>7. TypeOK'
    BY <1>4, <1>5, <1>6 DEF ConnectInv, TypeOK, Request, Tables, Becomes
  <1>8. req'[r].form # "sync_name" => OneResult(r)'
    BY <1>2, <1>3, <1>6 DEF Fits, OneResult, Times
  <1>9. Fits(r, fd)'
    BY <1>3, <1>5, <1>6, <1>8 DEF Fits, Becomes
  <1>10. owner' = [owner EXCEPT ![fd] = r]
    BY <1>1, <1>4 DEF ConnectInv, TypeOK
  <1>11. \A g \in Fds \ {fd} : /\ t'.entry[g] = t.entry[g] /\ t'.armed[g] = t.armed[g]
                               /\ g \in t'.closing <=> g \in t.closing
    BY <1>5 DEF Becomes
  <1> QED BY <1>1, <1>6, <1>7, <1>9, <1>10, <1>11, FitsSuffices

\* The pending closes free only numbers of requests that are over.
LEMMA ClosePendingStep ==
    ASSUME ConnectInv, close_pending
    PROVE  ConnectInv'
  <1>1. t \in Tables /\ 0 \in 0..MaxAddr
    BY ConstantFacts DEF ConnectInv, TypeOK, Tables
  <1>2. /\ \A fd \in Fds : owner'[fd] = IF fd \in t.closing THEN NoReq ELSE owner[fd]
        /\ req' = req
        /\ t' \in Tables /\ t'.entry = t.entry /\ t'.closing = {}
        /\ \A fd \in Fds \ t.closing : t'.armed[fd] = t.armed[fd]
    BY <1>1 DEF close_pending, Tables
  <1>3. TypeOK'
    BY <1>1, <1>2 DEF close_pending, ConnectInv, TypeOK, Tables
  <1>4. ToldOnce' /\ TryingIsUntold' /\ ClosingIsOver'
    BY <1>2 DEF ConnectInv, ToldOnce, OneResult, Times, TryingIsUntold, ClosingIsOver
  <1>5. HasItsNumber'
    BY <1>2 DEF ConnectInv, HasItsNumber, OwnersAgree
  <1>6. NothingLeftBehind' /\ OwnersAgree'
    BY <1>2 DEF ConnectInv, NothingLeftBehind, OwnersAgree, ClosingIsOver
  <1>7. IdleIsUntouched'
    BY <1>2, ConstantFacts DEF ConnectInv, IdleIsUntouched
  <1>8. EntriesAgree'
    BY <1>2 DEF ConnectInv, EntriesAgree, ClosingIsOver
  <1> QED BY <1>3, <1>4, <1>5, <1>6, <1>7, <1>8 DEF ConnectInv

-----------------------------------------------------------------------------
\* Every step preserves the inductive invariant.
LEMMA ConnectNext == ConnectInv /\ [Next]_vars => ConnectInv'
  <1> SUFFICES ASSUME ConnectInv, [Next]_vars PROVE ConnectInv'
    OBVIOUS
  <1>1. CASE UNCHANGED vars
    BY <1>1 DEF vars, ConnectInv, TypeOK, ToldOnce, OneResult, Times, HasItsNumber,
                NothingLeftBehind, IdleIsUntouched, TryingIsUntold, OwnersAgree, EntriesAgree,
                ClosingIsOver
  <1>2. CASE Next
    BY <1>2, ConnectAsyncStep, ConnectSyncStep, ConnectSyncNameStep, ConnectTimeoutStep,
       EventStep, CloseStep, ClosePendingStep DEF Next
  <1> QED BY <1>1, <1>2

\* The caller of any connect but the blocking one by name hears one result,
\* whichever of the addresses fail, and none while it is still trying: so the
\* memory of the attempts is freed once and not used afterwards.
THEOREM OneResultPerConnect == Spec => []ToldOnce
  <1>1. ConnectInv => ToldOnce
    BY DEF ConnectInv
  <1> QED BY ConnectInit, ConnectNext, <1>1, PTL DEF Spec

\* A request holds its number, with its own callbacks, from the call to the
\* close and through all addresses, and nothing is left open or registered
\* for one that is over.
THEOREM TheNumberIsHeld == Spec => []HoldsItsNumber
  <1>1. ConnectInv => HoldsItsNumber
    BY DEF ConnectInv, HoldsItsNumber
  <1> QED BY ConnectInit, ConnectNext, <1>1, PTL DEF Spec
=============================================================================
