--------------------------- MODULE SessionProofs ---------------------------
(***************************************************************************)
(* Theorems about Session for every set of users and tabs.                 *)
(***************************************************************************)
EXTENDS Session, TLAPS

(* The tab bar is shown only with a token, and an ended process has nothing *)
(* in flight.                                                               *)
RootInv ==
  /\ root = "TabBar" => token # nil
  /\ root # "none" => died = "no"
  /\ root = "none" => requests = {}

(* There is a token if and only if a redirect of this process carried one:  *)
(* nothing but the end of the process takes it away.                        *)
TokenInv == token # nil <=> \E k \in redirects : k \in {"token", "both"}

(* The same of the id, but for the redirect that ends the process because   *)
(* its id is no number.                                                     *)
IdInv == root # "none" => (userId # nil <=> \E k \in redirects : k \in {"id", "both"})

(* If all redirects carried both keys, token and id are of one user. *)
WholeInv == root # "none" /\ (\A k \in redirects : k = "both") => userId = token

IInv ==
  /\ TypeOK
  /\ RootInv
  /\ TokenInv
  /\ IdInv
  /\ WholeInv
  /\ RequestsCarryOneSession
  /\ UnwrapsFailWithoutKey

-----------------------------------------------------------------------------
(* The end of the process keeps what concerns the controllers. *)
LEMMA Ended ==
  ASSUME NEW where \in Ends, endProcess(where)
  PROVE  /\ root' = "none"
         /\ loaded' \in SUBSET Tabs
         /\ writes' = {}
         /\ requests' = {}
         /\ died' = where
  BY DEF endProcess

(* Launching the tab bar with token t: it is shown with a token, nothing    *)
(* changes, or the process ends for want of one.                            *)
LEMMA Launch ==
  ASSUME TypeOK, NEW t \in Value, NEW w \in SUBSET User, launchTabBarController(t, w)
  PROVE  /\ tab' \in Tabs
         /\ loaded' \in SUBSET Tabs
         /\ writes' \in SUBSET User
         /\ \/ root' = "TabBar" /\ t # nil /\ UNCHANGED <<requests, died>>
            \/ UNCHANGED <<root, requests, died>>
            \/ root' = "none" /\ t = nil /\ requests' = {} /\ died' = "token"
  BY TabsAssumption DEF TypeOK, launchTabBarController, TabBarViewDidLoad, endProcess

(* The kinds of the redirects after one with fragment f. *)
LEMMA Keys ==
  ASSUME NEW f \in Fragment
  PROVE  /\ keys(f) \subseteq {"token", "id", "both"}
         /\ f.access_token # absent <=> \E k \in keys(f) : k \in {"token", "both"}
         /\ f.user_id # absent <=> \E k \in keys(f) : k \in {"id", "both"}
         /\ f.access_token # absent /\ f.user_id # absent => keys(f) = {"both"}
         /\ f.access_token = absent /\ f.user_id = absent => keys(f) = {}
  BY DEF keys

(* The initial state satisfies the invariant. *)
LEMMA InitIInv == Init => IInv
  BY TabsAssumption DEF Init, IInv, TypeOK, RootInv, TokenInv, IdInv, WholeInv,
       RequestsCarryOneSession, UnwrapsFailWithoutKey, Value

(* A redirect with fragment f. *)
LEMMA RedirectStep ==
  ASSUME IInv, NEW f \in Fragment, decidePolicyFor(f)
  PROVE  IInv'
  <1>1. /\ root = "WebLogin" /\ died = "no"
        /\ token' = given(f.access_token, token)
        /\ userId' = given(f.user_id, userId)
        /\ redirects' = redirects \cup keys(f)
    BY DEF IInv, RootInv, decidePolicyFor
  <1>2. /\ f.access_token \in User \cup {absent}
        /\ f.user_id \in Value \cup {absent}
        /\ f.access_token \in User /\ f.user_id \in User => f.access_token = f.user_id
    BY DEF Fragment
  <1>3. token' \in Value /\ userId' \in Value
    BY <1>1, <1>2 DEF IInv, TypeOK, given, Value
  <1>4. sendUserSessionToFirebase(f) \in SUBSET User
    BY DEF IInv, TypeOK, sendUserSessionToFirebase
  <1>5. \/ f.user_id = nil /\ endProcess("number") /\ UNCHANGED tab
        \/ f.user_id # nil /\ launchTabBarController(token', sendUserSessionToFirebase(f))
    BY DEF decidePolicyFor
  <1>6. /\ tab' \in Tabs
        /\ loaded' \in SUBSET Tabs
        /\ writes' \in SUBSET User
        /\ \/ root' = "TabBar" /\ token' # nil /\ f.user_id # nil /\ UNCHANGED <<requests, died>>
           \/ f.user_id # nil /\ UNCHANGED <<root, requests, died>>
           \/ root' = "none" /\ token' = nil /\ requests' = {} /\ died' = "token"
           \/ root' = "none" /\ requests' = {} /\ died' = "number"
    <2>1. CASE f.user_id = nil /\ endProcess("number") /\ UNCHANGED tab
      BY <2>1, Ended DEF Ends, IInv, TypeOK
    <2>2. CASE f.user_id # nil /\ launchTabBarController(token', sendUserSessionToFirebase(f))
      BY <2>2, <1>3, <1>4, Launch DEF IInv
    <2> QED
      BY <1>5, <2>1, <2>2
  <1>7. TypeOK'
    <2>1. defaults' \in [token : Value, userId : Value]
      <3>1. defaults' = [token |-> given(f.access_token, defaults.token),
                         userId |-> given(f.user_id, defaults.userId)]
        BY DEF decidePolicyFor
      <3>2. given(f.access_token, defaults.token) \in Value /\ given(f.user_id, defaults.userId) \in Value
        BY <1>2 DEF IInv, TypeOK, given, Value
      <3> QED
        BY <3>1, <3>2
    <2>2. redirects' \in SUBSET {"token", "id", "both"}
      BY <1>1, Keys DEF IInv, TypeOK
    <2>3. firebase' \in SUBSET User
      BY DEF decidePolicyFor, IInv, TypeOK
    <2>4. requests' \in SUBSET Request /\ died' \in Ends \cup {"no"}
      BY <1>6 DEF IInv, TypeOK, Ends
    <2>5. root' \in {"WebLogin", "TabBar", "none"}
      BY <1>6 DEF IInv, TypeOK
    <2> QED
      BY <1>3, <1>6, <2>1, <2>2, <2>3, <2>4, <2>5 DEF TypeOK
  <1>8. RootInv'
    BY <1>1, <1>6 DEF IInv, RootInv
  <1>9. TokenInv'
    BY <1>1, <1>2, Keys, NilAssumption DEF IInv, TokenInv, given
  <1>10. IdInv'
    BY <1>1, <1>2, <1>6, Keys, NilAssumption DEF IInv, IdInv, given
  <1>11. WholeInv'
    <2> SUFFICES ASSUME root' # "none", \A k \in redirects' : k = "both"
                 PROVE  userId' = token'
      BY DEF WholeInv
    <2>1. f.user_id # nil
      BY <1>6
    <2>2. CASE f.access_token # absent /\ f.user_id # absent
      BY <2>1, <2>2, <1>1, <1>2 DEF given, Value
    <2>3. CASE f.access_token = absent /\ f.user_id = absent
      BY <2>3, <1>1 DEF IInv, WholeInv, given
    <2>4. CASE f.access_token # absent /\ f.user_id = absent
      BY <2>4, <1>1 DEF keys
    <2>5. CASE f.access_token = absent /\ f.user_id # absent
      BY <2>5, <1>1 DEF keys
    <2> QED
      BY <2>2, <2>3, <2>4, <2>5
  <1>12. RequestsCarryOneSession'
    BY <1>1, <1>6 DEF IInv, RequestsCarryOneSession
  <1>13. UnwrapsFailWithoutKey'
    <2>1. CASE died' = "no" \/ died' = "number"
      BY <2>1 DEF UnwrapsFailWithoutKey
    <2>2. CASE token' = nil /\ died' = "token"
      BY <2>2, <1>7, <1>9 DEF UnwrapsFailWithoutKey, TokenInv, TypeOK
    <2> QED
      BY <1>1, <1>6, <2>1, <2>2
  <1> QED
    BY <1>7, <1>8, <1>9, <1>10, <1>11, <1>12, <1>13 DEF IInv

(* A screen sends its request with the session of the tab bar, or ends the  *)
(* process because there is no id.                                          *)
LEMMA TabStep ==
  ASSUME IInv, NEW s \in Tabs, selectTab(s)
  PROVE  IInv'
  <1> DEFINE r == [search |-> FALSE, token |-> token, userId |-> userId]
  <1>1. /\ root = "TabBar" /\ died = "no" /\ token # nil
        /\ UNCHANGED <<token, userId, defaults, firebase, redirects>>
        /\ tab' \in Tabs
    BY DEF IInv, RootInv, selectTab
  <1>2. CASE userId = nil /\ endProcess("id")
    <2>1. /\ root' = "none" /\ loaded' \in SUBSET Tabs /\ writes' = {}
          /\ requests' = {} /\ died' = "id"
      BY <1>2, Ended DEF Ends
    <2>2. TypeOK'
      BY <1>1, <2>1 DEF IInv, TypeOK, Ends
    <2>3. RootInv' /\ TokenInv' /\ IdInv' /\ WholeInv' /\ RequestsCarryOneSession'
      BY <1>1, <2>1 DEF IInv, RootInv, TokenInv, IdInv, WholeInv, RequestsCarryOneSession
    <2>4. redirects = {"token"}
      BY <1>1, <1>2 DEF IInv, TypeOK, TokenInv, IdInv
    <2> QED
      BY <1>1, <2>1, <2>2, <2>3, <2>4 DEF IInv, UnwrapsFailWithoutKey
  <1>3. CASE /\ s \in Requesting \ loaded => userId # nil
             /\ loaded' = loaded \cup {s}
             /\ requests' = IF s \in Requesting \ loaded THEN requests \cup {r} ELSE requests
             /\ UNCHANGED <<root, writes, died>>
    <2>1. r \in Request
      BY DEF IInv, TypeOK, Request
    <2>2. TypeOK'
      BY <1>1, <1>3, <2>1 DEF IInv, TypeOK
    <2>3. RootInv' /\ TokenInv' /\ IdInv' /\ WholeInv' /\ UnwrapsFailWithoutKey'
      BY <1>1, <1>3 DEF IInv, RootInv, TokenInv, IdInv, WholeInv, UnwrapsFailWithoutKey
    <2>4. ASSUME userId # nil PROVE userId = token \/ \E a, b \in redirects : a # b
      <3> SUFFICES ASSUME userId # token PROVE \E a, b \in redirects : a # b
        OBVIOUS
      <3>1. PICK a \in redirects : a # "both"
        BY <1>1 DEF IInv, WholeInv
      <3>2. a \in {"token", "id"}
        BY <3>1 DEF IInv, TypeOK
      <3>3. \E b \in redirects : b \in {"token", "both"}
        BY <1>1 DEF IInv, TokenInv
      <3>4. \E b \in redirects : b \in {"id", "both"}
        BY <1>1, <2>4 DEF IInv, IdInv
      <3> QED
        BY <3>2, <3>3, <3>4
    <2>5. RequestsCarryOneSession'
      <3> SUFFICES ASSUME NEW q \in requests'
                   PROVE  /\ q.token # nil
                          /\ q.search \/ q.userId # nil
                          /\ q.search \/ q.userId = q.token \/ \E a, b \in redirects : a # b
        BY <1>1 DEF RequestsCarryOneSession
      <3>1. CASE q \in requests
        BY <3>1 DEF IInv, RequestsCarryOneSession
      <3>2. CASE q = r /\ userId # nil
        BY <3>2, <2>4, <1>1
      <3> QED
        BY <1>3, <3>1, <3>2
    <2> QED
      BY <2>2, <2>3, <2>5 DEF IInv
  <1> QED
    BY <1>2, <1>3 DEF selectTab

(* A search sends the token of the tab bar. *)
LEMMA SearchStep ==
  ASSUME IInv, groupsSearch
  PROVE  IInv'
  <1> DEFINE r == [search |-> TRUE, token |-> token, userId |-> nil]
  <1>1. r \in Request
    BY DEF IInv, TypeOK, Request, Value
  <1>2. TypeOK'
    BY <1>1 DEF IInv, TypeOK, groupsSearch
  <1>3. RootInv' /\ TokenInv' /\ IdInv' /\ WholeInv' /\ UnwrapsFailWithoutKey'
    BY DEF IInv, RootInv, TokenInv, IdInv, WholeInv, UnwrapsFailWithoutKey, groupsSearch
  <1>4. r.token # nil /\ r.search
    BY DEF IInv, RootInv, groupsSearch
  <1>5. (\A q \in requests' : q \in requests \/ q = r) /\ redirects' = redirects
    BY DEF groupsSearch
  <1>6. RequestsCarryOneSession'
    BY <1>4, <1>5 DEF IInv, RequestsCarryOneSession
  <1> QED
    BY <1>2, <1>3, <1>6 DEF IInv

(* A broken fragment or a failed search ends the process. *)
LEMMA EndSteps ==
  ASSUME IInv, decidePolicyForBroken \/ \E r \in requests : groupsSearchFails(r)
  PROVE  IInv'
  <1>1. PICK where \in {"component", "search"} :
          /\ endProcess(where)
          /\ UNCHANGED <<tab, token, userId, defaults, firebase, redirects>>
    BY DEF decidePolicyForBroken, groupsSearchFails
  <1>2. /\ root' = "none" /\ loaded' \in SUBSET Tabs /\ writes' = {}
        /\ requests' = {} /\ died' = where
    BY <1>1, Ended DEF Ends
  <1>3. TypeOK'
    BY <1>1, <1>2 DEF IInv, TypeOK, Ends
  <1> QED
    BY <1>1, <1>2, <1>3 DEF IInv, RootInv, TokenInv, IdInv, WholeInv,
                            RequestsCarryOneSession, UnwrapsFailWithoutKey

(* Firebase, replies, signing out and starting again. *)
LEMMA OtherSteps ==
  ASSUME IInv,
         \/ \E u \in writes : firebaseTakes(u) \/ firebaseRefuses(u)
         \/ \E r \in requests : replied(r)
         \/ signOutButton \/ Relaunch
  PROVE  IInv'
  <1> USE DEF IInv, RootInv, TokenInv, IdInv, WholeInv, RequestsCarryOneSession,
              UnwrapsFailWithoutKey
  <1>1. CASE \E u \in writes : firebaseTakes(u) \/ firebaseRefuses(u)
    BY <1>1 DEF firebaseTakes, firebaseRefuses, TypeOK
  <1>2. CASE \E r \in requests : replied(r)
    BY <1>2 DEF replied, TypeOK
  <1>3. CASE signOutButton
    BY <1>3 DEF signOutButton, TypeOK
  <1>4. CASE Relaunch
    BY <1>4, TabsAssumption DEF Relaunch, TypeOK, Value
  <1> QED
    BY <1>1, <1>2, <1>3, <1>4

(* IInv is inductive. *)
LEMMA Inductive == Spec => []IInv
  <1>1. ASSUME IInv, [Next]_vars PROVE IInv'
    <2>1. CASE UNCHANGED vars
      BY <1>1, <2>1 DEF IInv, TypeOK, RootInv, TokenInv, IdInv, WholeInv,
                        RequestsCarryOneSession, UnwrapsFailWithoutKey, vars
    <2>2. CASE \E f \in Fragment : decidePolicyFor(f)
      BY <1>1, <2>2, RedirectStep
    <2>3. CASE \E s \in Tabs : selectTab(s)
      BY <1>1, <2>3, TabStep
    <2>4. CASE groupsSearch
      BY <1>1, <2>4, SearchStep
    <2>5. CASE decidePolicyForBroken \/ \E r \in requests : groupsSearchFails(r)
      BY <1>1, <2>5, EndSteps
    <2>6. CASE \/ \E u \in writes : firebaseTakes(u) \/ firebaseRefuses(u)
               \/ \E r \in requests : replied(r)
               \/ signOutButton \/ Relaunch
      BY <1>1, <2>6, OtherSteps
    <2> QED
      BY <1>1, <2>1, <2>2, <2>3, <2>4, <2>5, <2>6 DEF Next
  <1> QED
    BY InitIInv, <1>1, PTL DEF Spec

-----------------------------------------------------------------------------
(* Type correctness of the session, for every set of users. *)
THEOREM SessionTypeCorrect == Spec => []TypeOK
  BY Inductive, PTL DEF IInv

(* Every request carries a token and, but for searches, an id, and they are *)
(* of one user unless redirects of the process differed in their keys.      *)
THEOREM OneSession == Spec => []RequestsCarryOneSession
  BY Inductive, PTL DEF IInv

(* The tab bar misses the token, and a screen the id, only if no redirect   *)
(* of the process carried it.                                               *)
THEOREM UnwrapsFail == Spec => []UnwrapsFailWithoutKey
  BY Inductive, PTL DEF IInv
=============================================================================
