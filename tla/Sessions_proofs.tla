--------------------------- MODULE Sessions_proofs ---------------------------
(***************************************************************************)
(* Proofs about Sessions, for every number of sessions, tokens, requests,  *)
(* mishaps and sockets.                                                    *)
(*                                                                         *)
(* LogoutIsFinal is not inductive: a save that is already under way could  *)
(* reopen the session.  QuietInv adds that none holds the row as open, and *)
(* a handler that loads it later finds it revoked.                         *)
(*                                                                         *)
(* Nor is NewestOnRecord: an answer that is lost leaves a hash on record   *)
(* whose token the client must never have been given.  TokenInv adds that  *)
(* no two handlers carry one token, and none a token that was given.       *)
(***************************************************************************)
EXTENDS Sessions, TLAPS

\* The handler carries the hash of a token it has signed for session id.
Signed(h, id) == h.of = id /\ StoresHash(h) /\ h.at \in {"loaded", "selected"}

\* What a handler in flight knows: its session exists, a logout has been given tokens, and
\* what it has loaded will not erase the hash.
Knows(h) ==
    /\ h.of \in SessionIds /\ h.op # "none" /\ h.at # "idle"
    /\ session[h.of].state # "none"
    /\ ~StoresHash(h) => given[h.of] # {}
    /\ h.at # "checked" => /\ h.entity.hash # 0 /\ h.entity.state # "none"
                           /\ ~StoresHash(h) => h.entity.state = "revoked"
    /\ h.at = "selected" => IF StoresHash(h) THEN "hash" \in h.dirty ELSE "state" \in h.dirty

HandlerInv == \A r \in Calls : handler[r] # NoHandler => Knows(handler[r])

\* Tokens are given out after the hash of one is stored.
HashInv == \A id \in SessionIds : given[id] # {} => session[id].hash # 0 /\ session[id].state # "none"

\* A token that a handler carries is of no other handler, and was not given out.
TokenInv ==
    /\ \A id \in SessionIds : given[id] \subseteq 1..issued[id]
    /\ \A q \in Calls, id \in SessionIds :
          Signed(handler[q], id) => handler[q].entity.hash \in (1..issued[id]) \ given[id]
    /\ \A p, q \in Calls, id \in SessionIds :
          p # q /\ Signed(handler[p], id) /\ Signed(handler[q], id)
             => handler[p].entity.hash # handler[q].entity.hash

QuietInv ==
    \A id \in quiet : /\ session[id].state = "revoked"
                      /\ \A q \in Calls : ~HoldsOpen(handler[q], id)

PresenceInv ==
    \/ overlapped
    \/ /\ \A j, k \in Sockets : j # k => socket[j] = "off" \/ socket[k] = "off"
       /\ online <=> (ghost \/ \E k \in Sockets : socket[k] = "on")

DbInv == HandlerInv /\ HashInv /\ TokenInv /\ NewestOnRecord /\ QuietInv

IInv == SessionTypeOK /\ DbInv /\ PresenceInv

-----------------------------------------------------------------------------
\* Where no handler is, is a well-typed one.
LEMMA IdleTyped == NoHandler \in Handler
  BY SessionBoundsAssumption DEF NoHandler, Handler, NoSessionRow, SessionRow

\* Before anybody has logged in.
LEMMA InitIInv == SessionInit => IInv
<1> SUFFICES ASSUME SessionInit PROVE IInv
  OBVIOUS
<1>1. SessionTypeOK
  <2>1. NoSessionRow \in SessionRow /\ 0 \in 0..MaxTokens /\ 0 \in 0..MaxMishaps
    BY SessionBoundsAssumption DEF NoSessionRow, SessionRow
  <2> QED  BY <2>1, IdleTyped DEF SessionInit, SessionTypeOK
<1>2. HandlerInv /\ HashInv /\ QuietInv /\ NewestOnRecord
  BY DEF SessionInit, HandlerInv, HashInv, QuietInv, NewestOnRecord
<1>3. TokenInv
  BY DEF SessionInit, TokenInv, Signed, NoHandler
<1>4. PresenceInv
  BY DEF SessionInit, PresenceInv
<1> QED  BY <1>1, <1>2, <1>3, <1>4 DEF IInv, DbInv

\* The handlers leave the gateway alone and the gateway leaves the tables alone.
LEMMA SameTables ==
    ASSUME IInv, UNCHANGED dbVars PROVE DbInv'
<1>1. HandlerInv' /\ HashInv' /\ QuietInv'
  BY DEF IInv, DbInv, HandlerInv, Knows, HashInv, QuietInv, dbVars, StoresHash, HoldsOpen
<1>2. TokenInv' /\ NewestOnRecord'
  BY DEF IInv, DbInv, TokenInv, Signed, StoresHash, NewestOnRecord, dbVars
<1> QED  BY <1>1, <1>2 DEF DbInv

\* A step that leaves the sockets alone says nothing new of who is online.
LEMMA SameSockets ==
    ASSUME IInv, UNCHANGED socketVars PROVE PresenceInv'
  BY DEF IInv, PresenceInv, socketVars

-----------------------------------------------------------------------------
(* The handlers.                                                           *)

\* Nothing is signed or answered.
LEMMA TokensKept ==
    ASSUME TokenInv, UNCHANGED <<issued, given>>,
           \A q \in Calls, id \in SessionIds :
               Signed(handler'[q], id) => /\ Signed(handler[q], id)
                                          /\ handler'[q].entity.hash = handler[q].entity.hash
    PROVE  TokenInv'
<1>1. \A q \in Calls, id \in SessionIds : Signed(handler[q], id)' <=> Signed(handler'[q], id)
  BY DEF Signed, StoresHash
<1> QED  BY <1>1 DEF TokenInv

\* A request that has found its session open, or has just inserted it.
LEMMA CheckKeeps ==
    ASSUME IInv, NEW r \in Calls, NEW id \in SessionIds,
           NEW op \in SessionOps, Check(r, op, id),
           UNCHANGED <<issued, given, latest, quiet>>,
           \/ UNCHANGED session
           \/ session[id].state = "none"
              /\ session' = [session EXCEPT ![id] = [state |-> "open", hash |-> 0]],
           session'[id].state # "none",
           op \in {"logout", "logoutAll"} => given[id] # {}
    PROVE  DbInv' /\ handler' \in [Calls -> Handler] /\ session' \in [SessionIds -> SessionRow]
<1> DEFINE new == [at |-> "checked", op |-> op, of |-> id, entity |-> NoSessionRow, dirty |-> {}]
<1>0. SessionTypeOK /\ HandlerInv /\ HashInv /\ TokenInv /\ NewestOnRecord /\ QuietInv
  BY DEF IInv, DbInv
<1>1. handler' = [handler EXCEPT ![r] = new] /\ handler[r] = NoHandler
  BY DEF Check
<1>2. new \in Handler
  BY SessionBoundsAssumption DEF Handler, NoSessionRow, SessionRow
<1>3. handler' \in [Calls -> Handler]
  BY <1>0, <1>1, <1>2 DEF SessionTypeOK
<1>4. [state |-> "open", hash |-> 0] \in SessionRow
  BY SessionBoundsAssumption DEF SessionRow
<1>5. session' \in [SessionIds -> SessionRow]
  BY <1>0, <1>4 DEF SessionTypeOK
<1>6. \A i \in SessionIds : session[i].state # "none" => session'[i] = session[i]
  BY <1>0 DEF SessionTypeOK
<1>7. HandlerInv'
  <2> SUFFICES ASSUME NEW q \in Calls, handler'[q] # NoHandler
               PROVE  Knows(handler[q])'
    BY DEF HandlerInv
  <2>1. CASE q = r
    <3>1. handler'[q] = new
      BY <2>1, <1>0, <1>1 DEF SessionTypeOK
    <3> QED  BY <3>1 DEF Knows, StoresHash, SessionOps
  <2>2. CASE q # r
    <3>1. handler'[q] = handler[q]
      BY <2>2, <1>0, <1>1 DEF SessionTypeOK
    <3> QED  BY <3>1, <1>0, <1>6 DEF HandlerInv, Knows, StoresHash
  <2> QED  BY <2>1, <2>2
<1>8. HashInv' /\ NewestOnRecord'
  <2>1. \A i \in SessionIds : given[i] # {} => session'[i] = session[i]
    BY <1>0, <1>6 DEF HashInv
  <2> QED  BY <2>1, <1>0 DEF HashInv, NewestOnRecord
<1>9. TokenInv'
  <2>1. \A q \in Calls, i \in SessionIds : Signed(handler'[q], i) => handler'[q] = handler[q]
    BY <1>0, <1>1 DEF SessionTypeOK, Signed
  <2> QED  BY <2>1, <1>0, TokensKept
<1>10. QuietInv'
  <2>1. \A q \in Calls, i \in SessionIds : HoldsOpen(handler'[q], i) => HoldsOpen(handler[q], i)
    BY <1>0, <1>1 DEF SessionTypeOK, HoldsOpen, StoresHash
  <2>2. quiet \in SUBSET SessionIds
    BY <1>0 DEF SessionTypeOK
  <2> QED  BY <1>0, <1>6, <2>1, <2>2 DEF QuietInv
<1> QED  BY <1>3, <1>5, <1>7, <1>8, <1>9, <1>10 DEF DbInv

\* The session is loaded.
LEMMA LoadKeeps ==
    ASSUME IInv, NEW r \in Calls, LoadSession(r) PROVE DbInv' /\ SessionTypeOK'
<1> DEFINE s == handler[r]
           e == Changed(s)
           new == At(s, "loaded", e, {})
<1>0. SessionTypeOK /\ HandlerInv /\ HashInv /\ TokenInv /\ NewestOnRecord /\ QuietInv
  BY DEF IInv, DbInv
<1>1. s.at = "checked" /\ s.op # "logoutAll" /\ handler' = [handler EXCEPT ![r] = new]
      /\ UNCHANGED <<session, given, latest, mishaps, quiet, socketVars>>
  BY DEF LoadSession, Sign, NoAnswer
<1>2. s \in Handler /\ s # NoHandler /\ Knows(s) /\ s.of \in SessionIds
  BY <1>0, <1>1 DEF SessionTypeOK, HandlerInv, NoHandler, Knows
<1>3. session[s.of] \in SessionRow /\ issued[s.of] \in 0..MaxTokens
  BY <1>0, <1>2 DEF SessionTypeOK
<1>4. /\ issued' \in [SessionIds -> 0..MaxTokens]
      /\ StoresHash(s) => issued[s.of] + 1 \in 1..MaxTokens
      /\ \A id \in SessionIds : issued'[id] = IF StoresHash(s) /\ id = s.of
                                              THEN issued[id] + 1 ELSE issued[id]
  <2>1. IF StoresHash(s) THEN issued[s.of] < MaxTokens /\ issued' = [issued EXCEPT ![s.of] = @ + 1]
                         ELSE issued' = issued
    BY DEF LoadSession, Sign
  <2> QED  BY <2>1, <1>0, <1>3, SessionBoundsAssumption DEF SessionTypeOK
<1>5. /\ e \in SessionRow /\ e.state # "none"
      /\ e.state = "open" => session[s.of].state = "open"
      /\ e.hash # 0
      /\ ~StoresHash(s) => e.state = "revoked"
      /\ StoresHash(s) => e.hash = issued[s.of] + 1
  <2>1. CASE StoresHash(s)
    <3>1. e = [state |-> session[s.of].state, hash |-> issued[s.of] + 1]
      BY <2>1 DEF Changed, Found, NextToken
    <3> QED  BY <2>1, <3>1, <1>2, <1>3, <1>4, SessionBoundsAssumption DEF SessionRow, Knows
  <2>2. CASE ~StoresHash(s)
    <3>1. e = [state |-> "revoked", hash |-> session[s.of].hash]
      BY <2>2 DEF Changed, Found
    <3>2. given[s.of] # {}
      BY <2>2, <1>2 DEF Knows
    <3> QED  BY <2>2, <3>1, <3>2, <1>0, <1>2, <1>3 DEF SessionRow, HashInv
  <2> QED  BY <2>1, <2>2
<1> HIDE DEF e
<1>6. new \in Handler /\ new.of = s.of /\ new.op = s.op /\ new.at = "loaded" /\ new.entity = e
  BY <1>2, <1>5 DEF Handler, At
<1> HIDE DEF new
<1>7. \A q \in Calls : handler'[q] = IF q = r THEN new ELSE handler[q]
  BY <1>0, <1>1 DEF SessionTypeOK
<1>8. SessionTypeOK'
  BY <1>0, <1>1, <1>4, <1>6 DEF SessionTypeOK, socketVars
<1>9. HandlerInv'
  <2> SUFFICES ASSUME NEW q \in Calls, handler'[q] # NoHandler
               PROVE  Knows(handler[q])'
    BY DEF HandlerInv
  <2>1. CASE q = r
    <3>1. handler'[q] = new
      BY <2>1, <1>7
    <3> QED  BY <3>1, <1>1, <1>2, <1>5, <1>6 DEF Knows, StoresHash
  <2>2. CASE q # r
    <3>1. handler'[q] = handler[q]
      BY <2>2, <1>7
    <3> QED  BY <3>1, <1>0, <1>1 DEF HandlerInv, Knows, StoresHash
  <2> QED  BY <2>1, <2>2
<1>10. HashInv' /\ NewestOnRecord'
  BY <1>0, <1>1 DEF HashInv, NewestOnRecord
<1>11. TokenInv'
  <2>1. \A id \in SessionIds : issued[id] \in Nat /\ issued'[id] \in Nat /\ issued[id] <= issued'[id]
    BY <1>0, <1>4, SessionBoundsAssumption DEF SessionTypeOK
  <2>2. \A id \in SessionIds : given'[id] \subseteq 1..issued'[id]
    BY <1>0, <1>1, <2>1 DEF TokenInv
  <2>3. \A id \in SessionIds : Signed(new, id) => /\ StoresHash(s) /\ id = s.of
                                                  /\ new.entity.hash = issued[id] + 1
    BY <1>5, <1>6 DEF Signed, StoresHash
  <2>4. ASSUME NEW q \in Calls, NEW id \in SessionIds, Signed(handler'[q], id)
        PROVE  handler'[q].entity.hash \in (1..issued'[id]) \ given'[id]
    <3>1. CASE q = r
      <4>1. /\ handler'[q].entity.hash = issued[id] + 1
            /\ issued'[id] = issued[id] + 1 /\ given'[id] \subseteq 1..issued[id]
        BY <3>1, <2>3, <2>4, <1>0, <1>1, <1>4, <1>7 DEF TokenInv
      <4> QED  BY <4>1, <2>1
    <3>2. CASE q # r
      <4>1. handler'[q].entity.hash \in (1..issued[id]) \ given[id]
        BY <3>2, <2>4, <1>0, <1>7 DEF TokenInv
      <4> QED  BY <4>1, <2>1, <1>1
    <3> QED  BY <3>1, <3>2
  <2>5. ASSUME NEW p \in Calls, NEW q \in Calls, NEW id \in SessionIds, p # q,
               Signed(handler'[p], id), Signed(handler'[q], id)
        PROVE  handler'[p].entity.hash # handler'[q].entity.hash
    <3>1. \A x \in Calls : x # r /\ Signed(handler'[x], id) => handler'[x].entity.hash \in 1..issued[id]
      BY <1>0, <1>7 DEF TokenInv
    <3>2. Signed(handler'[r], id) => handler'[r].entity.hash = issued[id] + 1
      BY <2>3, <1>7
    <3>3. CASE p # r /\ q # r
      <4>1. handler'[p] = handler[p] /\ handler'[q] = handler[q]
        BY <3>3, <1>7
      <4> QED  BY <4>1, <2>5, <1>0 DEF TokenInv
    <3>4. CASE p = r \/ q = r
      BY <3>1, <3>2, <3>4, <2>1, <2>5
    <3> QED  BY <3>3, <3>4
  <2>6. \A q \in Calls, id \in SessionIds : Signed(handler[q], id)' <=> Signed(handler'[q], id)
    BY DEF Signed, StoresHash
  <2> QED  BY <2>2, <2>4, <2>5, <2>6 DEF TokenInv
<1>12. QuietInv'
  <2>1. ASSUME NEW id \in quiet PROVE ~HoldsOpen(new, id)
    BY <1>0, <1>5, <1>6 DEF QuietInv, HoldsOpen
  <2> QED  BY <2>1, <1>0, <1>1, <1>7 DEF QuietInv
<1> QED  BY <1>8, <1>9, <1>10, <1>11, <1>12 DEF DbInv

\* The SELECT of save.
LEMMA SelectKeeps ==
    ASSUME IInv, NEW r \in Calls, SelectSession(r) PROVE DbInv' /\ SessionTypeOK'
<1> DEFINE s == handler[r]
           d == ChangedColumns(s, session[s.of])
           new == At(s, "selected", s.entity, d)
<1>0. SessionTypeOK /\ HandlerInv /\ HashInv /\ TokenInv /\ NewestOnRecord /\ QuietInv
  BY DEF IInv, DbInv
<1>1. s.at = "loaded" /\ handler' = [handler EXCEPT ![r] = new]
      /\ UNCHANGED <<session, issued, given, latest, mishaps, quiet, socketVars>>
  BY DEF SelectSession
<1>2. s \in Handler /\ s # NoHandler /\ Knows(s)
  BY <1>0, <1>1 DEF SessionTypeOK, HandlerInv, NoHandler
<1>3. d \in SUBSET SessionColumns /\ IF StoresHash(s) THEN "hash" \in d ELSE "state" \in d
  BY DEF ChangedColumns, SessionColumns
<1> HIDE DEF d
<1>4. /\ new \in Handler /\ new.at = "selected" /\ new.dirty = d
      /\ new.of = s.of /\ new.op = s.op /\ new.entity = s.entity
  BY <1>2, <1>3 DEF Handler, At
<1> HIDE DEF new
<1>5. \A q \in Calls : handler'[q] = IF q = r THEN new ELSE handler[q]
  BY <1>0, <1>1 DEF SessionTypeOK
<1>6. SessionTypeOK'
  BY <1>0, <1>1, <1>4 DEF SessionTypeOK, socketVars
<1>7. HandlerInv'
  <2> SUFFICES ASSUME NEW q \in Calls, handler'[q] # NoHandler
               PROVE  Knows(handler[q])'
    BY DEF HandlerInv
  <2>1. CASE q = r
    <3>1. handler'[q] = new
      BY <2>1, <1>5
    <3> QED  BY <3>1, <1>1, <1>2, <1>3, <1>4 DEF Knows, StoresHash
  <2>2. CASE q # r
    <3>1. handler'[q] = handler[q]
      BY <2>2, <1>5
    <3> QED  BY <3>1, <1>0, <1>1 DEF HandlerInv, Knows, StoresHash
  <2> QED  BY <2>1, <2>2
<1>8. HashInv' /\ NewestOnRecord'
  BY <1>0, <1>1 DEF HashInv, NewestOnRecord
<1>9. TokenInv'
  <2>1. \A id : Signed(new, id) => Signed(s, id) /\ new.entity.hash = s.entity.hash
    BY <1>1, <1>4 DEF Signed, StoresHash
  <2>2. \A q \in Calls, id \in SessionIds :
            Signed(handler'[q], id) => /\ Signed(handler[q], id)
                                       /\ handler'[q].entity.hash = handler[q].entity.hash
    BY <2>1, <1>5
  <2>3. UNCHANGED <<issued, given>>
    BY <1>1
  <2> HIDE DEF s
  <2> QED  BY <1>0, <2>2, <2>3, TokensKept
<1>10. QuietInv'
  <2>1. \A id : HoldsOpen(new, id) => HoldsOpen(s, id)
    BY <1>1, <1>4 DEF HoldsOpen, StoresHash
  <2> QED  BY <2>1, <1>0, <1>1, <1>5 DEF QuietInv
<1> QED  BY <1>6, <1>7, <1>8, <1>9, <1>10 DEF DbInv

\* A handler ends: the others still know what they knew if no session goes away and no
\* token is taken back.
LEMMA EndKeeps ==
    ASSUME SessionTypeOK, HandlerInv, NEW r \in Calls, handler' = [handler EXCEPT ![r] = NoHandler],
           \A id \in SessionIds : /\ session[id].state # "none" => session'[id].state # "none"
                                 /\ given[id] \subseteq given'[id]
    PROVE  /\ handler' \in [Calls -> Handler] /\ HandlerInv'
           /\ \A q \in Calls, id \in SessionIds :
                  HoldsOpen(handler[q], id)' => HoldsOpen(handler[q], id) /\ q # r
           /\ \A q \in Calls, id \in SessionIds :
                  Signed(handler'[q], id) => handler'[q] = handler[q] /\ q # r
<1>1. \A q \in Calls : handler'[q] = IF q = r THEN NoHandler ELSE handler[q]
  BY DEF SessionTypeOK
<1>2. handler' \in [Calls -> Handler]
  BY IdleTyped DEF SessionTypeOK
<1>3. ASSUME NEW q \in Calls, handler'[q] # NoHandler PROVE Knows(handler[q])'
  BY <1>1, <1>3 DEF HandlerInv, Knows, StoresHash
<1>4. \A id : ~HoldsOpen(NoHandler, id) /\ ~Signed(NoHandler, id)
  BY DEF HoldsOpen, Signed, NoHandler
<1>5. ASSUME NEW q \in Calls, NEW id \in SessionIds, HoldsOpen(handler'[q], id)
      PROVE  HoldsOpen(handler[q], id) /\ q # r
  BY <1>1, <1>4, <1>5
<1>6. \A q \in Calls, id \in SessionIds : HoldsOpen(handler[q], id)' <=> HoldsOpen(handler'[q], id)
  BY DEF HoldsOpen, StoresHash
<1>7. ASSUME NEW q \in Calls, NEW id \in SessionIds, Signed(handler'[q], id)
      PROVE  handler'[q] = handler[q] /\ q # r
  BY <1>1, <1>4, <1>7
<1> QED  BY <1>2, <1>3, <1>5, <1>6, <1>7 DEF HandlerInv

\* The UPDATE of save; the new tokens are returned, or the answer is lost.
LEMMA StoreKeeps ==
    ASSUME IInv, NEW r \in Calls, CommitSession(r) \/ LoseAnswer(r)
    PROVE  DbInv' /\ SessionTypeOK'
<1> DEFINE s == handler[r]
           n == s.entity.hash
           w == UpdatedRow(s, session[s.of])
<1>0. SessionTypeOK /\ HandlerInv /\ HashInv /\ TokenInv /\ NewestOnRecord /\ QuietInv
  BY DEF IInv, DbInv
<1>1. /\ s.at = "selected" /\ session' = [session EXCEPT ![s.of] = w]
      /\ quiet' = IF StoresHash(s) THEN quiet ELSE quiet \cup Quiet({s.of})
      /\ handler' = [handler EXCEPT ![r] = NoHandler]
      /\ UNCHANGED <<issued, socketVars>>
  BY DEF CommitSession, LoseAnswer, Store
<1>2. /\ s \in Handler /\ s # NoHandler /\ Knows(s) /\ s.of \in SessionIds
      /\ session[s.of] \in SessionRow
      /\ s.entity \in SessionRow /\ n # 0 /\ s.entity.state # "none"
  BY <1>0, <1>1 DEF SessionTypeOK, HandlerInv, NoHandler, Knows, Handler
<1>3. /\ n \in 0..MaxTokens
      /\ StoresHash(s) => Signed(s, s.of) /\ n \in (1..issued[s.of]) \ given[s.of]
  BY <1>0, <1>1, <1>2 DEF SessionRow, TokenInv, Signed
<1>4. \/ given' = given /\ latest' = latest
      \/ /\ StoresHash(s)
         /\ given' = [given EXCEPT ![s.of] = @ \cup {n}] /\ latest' = [latest EXCEPT ![s.of] = n]
  BY DEF CommitSession, LoseAnswer, NoAnswer, Answer
<1>5. mishaps' \in 0..MaxMishaps
  BY <1>0, SessionBoundsAssumption DEF CommitSession, LoseAnswer, SessionTypeOK
<1>6. /\ w \in SessionRow /\ w.state # "none"
      /\ w.hash = 0 => session[s.of].hash = 0 /\ ~StoresHash(s)
      /\ ~StoresHash(s) => w.state = "revoked"
      /\ StoresHash(s) => w.hash = n
      /\ w.state = "open" => session[s.of].state = "open" \/ HoldsOpen(s, s.of)
  BY <1>1, <1>2 DEF UpdatedRow, SessionRow, Knows, HoldsOpen
<1> HIDE DEF w
<1>7. \A id \in SessionIds : session'[id] = IF id = s.of THEN w ELSE session[id]
  BY <1>0, <1>1 DEF SessionTypeOK
<1>8. /\ \A id \in SessionIds : id # s.of => given'[id] = given[id] /\ latest'[id] = latest[id]
      /\ \/ given'[s.of] = given[s.of] /\ latest'[s.of] = latest[s.of]
         \/ /\ StoresHash(s)
            /\ given'[s.of] = given[s.of] \cup {n} /\ latest'[s.of] = n
  BY <1>0, <1>2, <1>4 DEF SessionTypeOK
<1>9. /\ handler' \in [Calls -> Handler] /\ HandlerInv'
      /\ \A q \in Calls, id \in SessionIds :
             HoldsOpen(handler[q], id)' => HoldsOpen(handler[q], id) /\ q # r
      /\ \A q \in Calls, id \in SessionIds :
             Signed(handler'[q], id) => handler'[q] = handler[q] /\ q # r
  <2>1. \A id \in SessionIds : /\ session[id].state # "none" => session'[id].state # "none"
                               /\ given[id] \subseteq given'[id]
    BY <1>6, <1>7, <1>8
  <2>2. handler' = [handler EXCEPT ![r] = NoHandler]
    BY <1>1
  <2> HIDE DEF s
  <2> QED  BY <1>0, <2>1, <2>2, EndKeeps
<1>10. SessionTypeOK'
  <2>1. session' \in [SessionIds -> SessionRow] /\ quiet' \in SUBSET SessionIds
    BY <1>0, <1>1, <1>2, <1>6 DEF SessionTypeOK, Quiet
  <2>2. given' \in [SessionIds -> SUBSET Tokens] /\ latest' \in [SessionIds -> 0..MaxTokens]
    BY <1>0, <1>2, <1>3, <1>4, SessionBoundsAssumption DEF SessionTypeOK, Tokens
  <2> QED  BY <1>0, <1>1, <1>5, <1>9, <2>1, <2>2 DEF SessionTypeOK, socketVars
<1>11. HashInv'
  BY <1>0, <1>2, <1>6, <1>7, <1>8 DEF HashInv
<1>12. TokenInv'
  <2>1. \A id \in SessionIds : given'[id] \subseteq 1..issued'[id]
    BY <1>0, <1>1, <1>3, <1>8 DEF TokenInv
  <2>2. ASSUME NEW q \in Calls, NEW id \in SessionIds, Signed(handler'[q], id)
        PROVE  handler'[q].entity.hash \in (1..issued'[id]) \ given'[id]
    <3>1. /\ q # r /\ handler'[q] = handler[q] /\ Signed(handler[q], id)
          /\ handler[q].entity.hash \in (1..issued[id]) \ given[id] /\ issued' = issued
      BY <2>2, <1>0, <1>1, <1>9 DEF TokenInv
    <3>2. id = s.of /\ StoresHash(s) => handler[q].entity.hash # n
      BY <3>1, <1>0, <1>3 DEF TokenInv
    <3> QED  BY <3>1, <3>2, <1>8
  <2>3. ASSUME NEW p \in Calls, NEW q \in Calls, NEW id \in SessionIds, p # q,
               Signed(handler'[p], id), Signed(handler'[q], id)
        PROVE  handler'[p].entity.hash # handler'[q].entity.hash
    BY <2>3, <1>0, <1>9 DEF TokenInv
  <2>4. \A q \in Calls, id \in SessionIds : Signed(handler[q], id)' <=> Signed(handler'[q], id)
    BY DEF Signed, StoresHash
  <2> QED  BY <2>1, <2>2, <2>3, <2>4 DEF TokenInv
<1>13. NewestOnRecord'
  <2> SUFFICES ASSUME NEW id \in SessionIds, session'[id].state = "open", given'[id] # {}
               PROVE  session'[id].hash \in {latest'[id]} \cup (Tokens \ given'[id])
    BY DEF NewestOnRecord
  <2>1. CASE id # s.of
    BY <2>1, <1>0, <1>7, <1>8 DEF NewestOnRecord
  <2>2. CASE id = s.of
    <3>1. StoresHash(s) /\ session'[id].hash = n /\ n \in Tokens \ given[id]
      BY <2>2, <1>2, <1>3, <1>6, <1>7 DEF Tokens
    <3> QED  BY <3>1, <2>2, <1>8
  <2> QED  BY <2>1, <2>2
<1>14. QuietInv'
  <2> SUFFICES ASSUME NEW id \in quiet'
               PROVE  session'[id].state = "revoked" /\ \A q \in Calls : ~HoldsOpen(handler[q], id)'
    BY DEF QuietInv
  <2>1. id \in SessionIds
    BY <1>10 DEF SessionTypeOK
  <2>2. CASE id \in quiet
    BY <2>1, <2>2, <1>0, <1>2, <1>6, <1>7, <1>9 DEF QuietInv, SessionRow
  <2>3. CASE id \notin quiet
    <3>1. ~StoresHash(s) /\ id = s.of /\ \A q \in Calls : ~HoldsOpen(handler[q], id)
      BY <2>3, <1>1 DEF Quiet
    <3> QED  BY <3>1, <2>1, <1>6, <1>7, <1>9
  <2> QED  BY <2>2, <2>3
<1> QED  BY <1>9, <1>10, <1>11, <1>12, <1>13, <1>14 DEF DbInv

\* A request fails half-way.
LEMMA FailKeeps ==
    ASSUME IInv, NEW r \in Calls, CallFails(r) PROVE DbInv' /\ SessionTypeOK'
<1>0. SessionTypeOK /\ HandlerInv /\ HashInv /\ TokenInv /\ NewestOnRecord /\ QuietInv
  BY DEF IInv, DbInv
<1>1. /\ handler' = [handler EXCEPT ![r] = NoHandler]
      /\ UNCHANGED <<session, issued, given, latest, quiet, socketVars>>
  BY DEF CallFails
<1>2. /\ handler' \in [Calls -> Handler] /\ HandlerInv'
      /\ \A q \in Calls, id \in SessionIds :
             HoldsOpen(handler[q], id)' => HoldsOpen(handler[q], id) /\ q # r
      /\ \A q \in Calls, id \in SessionIds :
             Signed(handler'[q], id) => handler'[q] = handler[q] /\ q # r
  BY <1>0, <1>1, EndKeeps
<1>3. mishaps' \in 0..MaxMishaps
  BY <1>0, SessionBoundsAssumption DEF CallFails, SessionTypeOK
<1>4. SessionTypeOK'
  BY <1>0, <1>1, <1>2, <1>3 DEF SessionTypeOK, socketVars
<1>5. HashInv' /\ NewestOnRecord' /\ QuietInv'
  BY <1>0, <1>1, <1>2 DEF HashInv, NewestOnRecord, QuietInv, SessionTypeOK
<1>6. TokenInv'
  BY <1>0, <1>1, <1>2, TokensKept
<1> QED  BY <1>2, <1>4, <1>5, <1>6 DEF DbInv

\* All sessions of a user are revoked.
LEMMA RevokeAllKeeps ==
    ASSUME IInv, NEW r \in Calls, RevokeAll(r) PROVE DbInv' /\ SessionTypeOK'
<1> DEFINE open == {i \in SessionIds : session[i].state = "open"}
<1>0. SessionTypeOK /\ HandlerInv /\ HashInv /\ TokenInv /\ NewestOnRecord /\ QuietInv
  BY DEF IInv, DbInv
<1>1. /\ session' = [i \in SessionIds |-> IF i \in open THEN [session[i] EXCEPT !.state = "revoked"]
                                                       ELSE session[i]]
      /\ quiet' = quiet \cup Quiet(open)
      /\ handler' = [handler EXCEPT ![r] = NoHandler]
      /\ UNCHANGED <<issued, given, latest, mishaps, socketVars>>
  BY DEF RevokeAll
<1>2. \A i \in SessionIds : /\ session'[i] \in SessionRow /\ session'[i].hash = session[i].hash
                            /\ session'[i].state = IF i \in open THEN "revoked" ELSE session[i].state
  BY <1>0, <1>1 DEF SessionTypeOK, SessionRow
<1>3. /\ handler' \in [Calls -> Handler] /\ HandlerInv'
      /\ \A q \in Calls, id \in SessionIds :
             HoldsOpen(handler[q], id)' => HoldsOpen(handler[q], id) /\ q # r
      /\ \A q \in Calls, id \in SessionIds :
             Signed(handler'[q], id) => handler'[q] = handler[q] /\ q # r
  <2>1. \A id \in SessionIds : /\ session[id].state # "none" => session'[id].state # "none"
                               /\ given[id] \subseteq given'[id]
    BY <1>1, <1>2
  <2> QED  BY <1>0, <1>1, <2>1, EndKeeps
<1>4. SessionTypeOK'
  BY <1>0, <1>1, <1>2, <1>3 DEF SessionTypeOK, Quiet, socketVars
<1>5. HashInv' /\ NewestOnRecord'
  BY <1>0, <1>1, <1>2 DEF HashInv, NewestOnRecord
<1>6. TokenInv'
  BY <1>0, <1>1, <1>3, TokensKept
<1>7. QuietInv'
  <2> SUFFICES ASSUME NEW id \in quiet'
               PROVE  session'[id].state = "revoked" /\ \A q \in Calls : ~HoldsOpen(handler[q], id)'
    BY DEF QuietInv
  <2>1. id \in SessionIds
    BY <1>4 DEF SessionTypeOK
  <2>2. id \in quiet \/ (id \in open /\ \A q \in Calls : ~HoldsOpen(handler[q], id))
    BY <1>1 DEF Quiet
  <2> QED  BY <2>1, <2>2, <1>0, <1>2, <1>3 DEF QuietInv
<1> QED  BY <1>3, <1>4, <1>5, <1>6, <1>7 DEF DbInv

-----------------------------------------------------------------------------
(* The gateway.                                                            *)

\* No two sockets are there at once, so the last one to change decides.
LEMMA SocketKeeps ==
    ASSUME IInv, NEW k \in Sockets,
           \/ Connect(k) \/ FoundUser(k) \/ LookupFails(k) \/ HandleDisconnect(k) \/ DisconnectEarly(k)
    PROVE  IInv'
<1>0. SessionTypeOK /\ PresenceInv
  BY DEF IInv
<1>1. UNCHANGED dbVars /\ mishaps' \in 0..MaxMishaps
      /\ online' \in BOOLEAN /\ overlapped' \in BOOLEAN /\ ghost' \in BOOLEAN
  <2>1. UNCHANGED dbVars
    BY DEF Connect, FoundUser, LookupFails, HandleDisconnect, DisconnectEarly
  <2>2. mishaps' \in 0..MaxMishaps
    BY <1>0, SessionBoundsAssumption
    DEF Connect, FoundUser, LookupFails, HandleDisconnect, DisconnectEarly, SessionTypeOK
  <2>3. online' \in BOOLEAN
    BY <1>0 DEF Connect, FoundUser, LookupFails, HandleDisconnect, DisconnectEarly, SessionTypeOK
  <2>4. overlapped \in BOOLEAN /\ ghost \in BOOLEAN
    BY <1>0 DEF SessionTypeOK
  <2>5. overlapped' \in BOOLEAN /\ ghost' \in BOOLEAN
    <3> HIDE DEF dbVars
    <3>1. overlapped' \in BOOLEAN
      BY <2>4, Zenon DEF Connect, FoundUser, LookupFails, HandleDisconnect, DisconnectEarly
    <3>2. ghost' \in BOOLEAN
      BY <2>4, Zenon DEF Connect, FoundUser, LookupFails, HandleDisconnect, DisconnectEarly
    <3> QED  BY <3>1, <3>2
  <2> QED  BY <2>1, <2>2, <2>3, <2>5
<1>2. PICK v \in {"off", "looking", "on", "gone"} : socket' = [socket EXCEPT ![k] = v]
  BY DEF Connect, FoundUser, LookupFails, HandleDisconnect, DisconnectEarly
<1>3. SessionTypeOK'
  BY <1>0, <1>1, <1>2 DEF SessionTypeOK, dbVars
<1>4. DbInv'
  BY <1>1, SameTables
<1>5. \A j \in Sockets : socket'[j] = IF j = k THEN v ELSE socket[j]
  BY <1>0, <1>2 DEF SessionTypeOK
<1>6. ASSUME ~overlapped'
      PROVE  AloneWith(k) /\ (online' <=> (ghost' \/ v = "on"))
  <2>1. socket'[k] = v
    BY <1>5
  <2>2. overlapped \/ AloneWith(k) \/ socket[k] = "off"
    BY <1>0 DEF PresenceInv, AloneWith, SessionTypeOK
  <2>3. ~overlapped => (online <=> (ghost \/ \E j \in Sockets : socket[j] = "on"))
    BY <1>0 DEF PresenceInv
  <2>4. AloneWith(k) => \A j \in Sockets : socket[j] = "on" => j = k
    BY DEF AloneWith
  <2>5. ASSUME ~overlapped, AloneWith(k), socket[k] # "on", v # "on",
               UNCHANGED <<online, ghost>>
        PROVE  online' <=> (ghost' \/ v = "on")
    BY <2>3, <2>4, <2>5
  <2>6. CASE Connect(k)
    <3>1. ~overlapped /\ AloneWith(k) /\ v = "looking" /\ socket[k] = "off" /\ UNCHANGED <<online, ghost>>
      BY <2>6, <2>1, <1>6, <1>5, <1>0 DEF Connect, SessionTypeOK
    <3> QED  BY <3>1, <2>5
  <2>7. CASE FoundUser(k)
    <3>1. /\ socket[k] # "off" /\ (overlapped => AloneWith(k))
          /\ v = (IF socket[k] = "gone" THEN "off" ELSE "on")
          /\ online' = TRUE /\ ghost' = (socket[k] = "gone")
      BY <2>7, <2>1, <1>6, <1>0 DEF FoundUser, SessionTypeOK
    <3> QED  BY <3>1, <2>2
  <2>8. CASE LookupFails(k)
    <3>1. ~overlapped /\ socket[k] \in {"looking", "gone"} /\ v = "off" /\ UNCHANGED <<online, ghost>>
      BY <2>8, <2>1, <1>6, <1>0 DEF LookupFails, SessionTypeOK
    <3> QED  BY <3>1, <2>2, <2>5
  <2>9. CASE HandleDisconnect(k)
    <3>1. socket[k] = "on" /\ (overlapped => AloneWith(k)) /\ v = "off" /\ online' = FALSE /\ ghost' = FALSE
      BY <2>9, <2>1, <1>6, <1>0 DEF HandleDisconnect, SessionTypeOK
    <3> QED  BY <3>1, <2>2
  <2>10. CASE DisconnectEarly(k)
    <3>1. ~overlapped /\ socket[k] = "looking" /\ v = "gone" /\ UNCHANGED <<online, ghost>>
      BY <2>10, <2>1, <1>6, <1>0 DEF DisconnectEarly, SessionTypeOK
    <3> QED  BY <3>1, <2>2, <2>5
  <2> QED  BY <2>6, <2>7, <2>8, <2>9, <2>10
<1>7. PresenceInv'
  <2>1. CASE overlapped'
    BY <2>1 DEF PresenceInv
  <2>2. CASE ~overlapped'
    <3>1. AloneWith(k) /\ (online' <=> (ghost' \/ v = "on"))
      BY <1>6, <2>2
    <3>2. \A j \in Sockets : j # k => socket'[j] = "off"
      BY <3>1, <1>5 DEF AloneWith
    <3>3. v = "on" <=> \E j \in Sockets : socket'[j] = "on"
      BY <3>2, <1>5
    <3>4. \A i, j \in Sockets : i # j => socket'[i] = "off" \/ socket'[j] = "off"
      BY <3>2
    <3> QED  BY <3>1, <3>3, <3>4 DEF PresenceInv
  <2> QED  BY <2>1, <2>2
<1> QED  BY <1>3, <1>4, <1>7 DEF IInv

-----------------------------------------------------------------------------
\* Every step of sessions and sockets.
LEMMA NextIInv == IInv /\ [SessionNext]_sessionVars => IInv'
<1> SUFFICES ASSUME IInv, [SessionNext]_sessionVars PROVE IInv'
  OBVIOUS
<1>0. SessionTypeOK
  BY DEF IInv
<1>1. ASSUME NEW r \in Calls, NEW id \in SessionIds, CreateSession(r, id) PROVE IInv'
  <2>1. DbInv' /\ handler' \in [Calls -> Handler] /\ session' \in [SessionIds -> SessionRow]
    BY <1>0, <1>1, CheckKeeps DEF CreateSession, SessionTypeOK, SessionOps
  <2> QED  BY <1>0, <1>1, <2>1, SameSockets DEF IInv, CreateSession, SessionTypeOK, socketVars
<1>2. ASSUME NEW r \in Calls, NEW id \in SessionIds, NEW n \in Tokens, Refresh(r, id, n)
      PROVE  IInv'
  <2>1. DbInv' /\ handler' \in [Calls -> Handler]
    BY <1>2, CheckKeeps DEF Refresh, Accepted, SessionOps
  <2> QED  BY <1>0, <1>2, <2>1, SameSockets DEF IInv, Refresh, SessionTypeOK, socketVars
<1>3. ASSUME NEW r \in Calls, NEW id \in SessionIds, NEW op \in {"logout", "logoutAll"},
             Logout(r, id, op)
      PROVE  IInv'
  <2>1. DbInv' /\ handler' \in [Calls -> Handler]
    BY <1>3, CheckKeeps DEF Logout, SessionOps
  <2> QED  BY <1>0, <1>3, <2>1, SameSockets DEF IInv, Logout, SessionTypeOK, socketVars
<1>4. ASSUME NEW r \in Calls,
             \/ LoadSession(r) \/ SelectSession(r) \/ CommitSession(r) \/ LoseAnswer(r)
             \/ RevokeAll(r) \/ CallFails(r)
      PROVE  IInv'
  <2>1. DbInv' /\ SessionTypeOK'
    BY <1>4, LoadKeeps, SelectKeeps, StoreKeeps, RevokeAllKeeps, FailKeeps
  <2>2. UNCHANGED socketVars
    BY <1>4 DEF LoadSession, SelectSession, CommitSession, LoseAnswer, Store, RevokeAll, CallFails
  <2> QED  BY <2>1, <2>2, SameSockets DEF IInv
<1>5. CASE UNCHANGED sessionVars
  <2>1. UNCHANGED <<dbVars, socketVars, mishaps>>
    BY <1>5 DEF sessionVars, dbVars, socketVars
  <2>2. SessionTypeOK'
    BY <1>0, <2>1 DEF SessionTypeOK, dbVars, socketVars
  <2> QED  BY <2>1, <2>2, SameTables, SameSockets DEF IInv
<1> QED  BY <1>1, <1>2, <1>3, <1>4, <1>5, SocketKeeps DEF SessionNext

\* The invariant, in every state that sessions and sockets reach.
THEOREM Inductive == SessionSpec => []IInv
  BY InitIInv, NextIInv, PTL DEF SessionSpec

\* The variables keep their types.
THEOREM TypeCorrect == SessionSpec => []SessionTypeOK
<1>1. IInv => SessionTypeOK
  BY DEF IInv
<1> QED  BY <1>1, Inductive, PTL

\* A revocation that no loaded save overlaps is final (revokeSession,
\* revokeAllUserSessions, updateRefreshTokenHash).
THEOREM FinalLogout == SessionSpec => []LogoutIsFinal
<1>1. IInv => LogoutIsFinal
  BY DEF IInv, DbInv, QuietInv, LogoutIsFinal
<1> QED  BY <1>1, Inductive, PTL

\* The hash on record of an open session is of the token answered last or of a lost one,
\* whatever overlaps, fails or comes late (updateRefreshTokenHash, revokeSession).
THEOREM RecordIsNewest == SessionSpec => []NewestOnRecord
<1>1. IInv => NewestOnRecord
  BY DEF IInv, DbInv
<1> QED  BY <1>1, Inductive, PTL

\* Who is listed as online: a socket is open, or a lone one had closed when it was found;
\* nothing is said from two sockets at once until one is alone (handleConnection,
\* handleDisconnect).
THEOREM SettledPresence == SessionSpec => []PresenceSettles
<1>1. IInv => PresenceSettles
  BY DEF IInv, PresenceInv, PresenceSettles
<1> QED  BY <1>1, Inductive, PTL

=============================================================================
