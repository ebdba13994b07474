------------------------------ MODULE Session ------------------------------
(***************************************************************************)
(* Signing in and out, and the screens of the tab bar.  The app starts on  *)
(* WebLoginViewController, whose web view is redirected by the service to  *)
(* a page with the session in its fragment.  TabBarController loads a      *)
(* screen when its tab is selected for the first time; the screens then    *)
(* send requests with the token and the user id of UserSession.instance.   *)
(* Sign out, on the Account screen, goes back to the login screen.         *)
(*                                                                         *)
(* External: the service, which redirects with any fragment and answers    *)
(* requests at any time; UserDefaults, which survives the process;         *)
(* Firebase, which queues writes in memory (persistence is not enabled)    *)
(* and takes or refuses them later.  The form of LoginFormViewController   *)
(* is not reachable from the initial controller of Main.storyboard.        *)
(***************************************************************************)
EXTENDS Naturals

CONSTANTS User,    \* users of the service
          Tabs,    \* the screens of the tab bar
          nil,
          absent   \* a key that the fragment does not have

(* Main.storyboard has News, Groups, Messenger, Friends and Account; News   *)
(* and Friends do nothing here that Account does not do.                    *)
ASSUME TabsAssumption == {"Messenger", "Groups", "Account"} \subseteq Tabs

ASSUME NilAssumption == nil \notin User /\ absent \notin User /\ nil # absent

(* The screens whose viewDidLoad sends a request. *)
Requesting == Tabs \ {"Messenger"}

Value == User \cup {nil}

(* What `params` gives for the two keys.  A user_id that Int() does not     *)
(* take is nil.  The service does not join two users in one fragment.       *)
Fragment ==
  {f \in [access_token : User \cup {absent}, user_id : Value \cup {absent}] :
     f.access_token \in User /\ f.user_id \in User => f.access_token = f.user_id}

(* Kinds of requests in flight.  Only a search, which carries no user id,   *)
(* is told from the others.                                                 *)
Request == [search : BOOLEAN, token : Value, userId : Value]

(* Where the process ended: param[1] of a component without "=", userId! of *)
(* a user_id that is no number, token! of the tab bar, userId! of a screen, *)
(* value! of a failed search.                                               *)
Ends == {"component", "number", "token", "id", "search"}

VARIABLES
  root,       \* the window's root controller, "none" once the process ended
  tab,        \* TabBarController.selectedIndex
  loaded,     \* the screens of this tab bar whose view is loaded
  token,      \* UserSession.instance.token, by the user it was issued to
  userId,     \* UserSession.instance.userId
  defaults,   \* the keys UserSessionToken and UserSessionUserID
  writes,     \* the children of userSessions with a write on its way
  firebase,   \* the children of userSessions
  requests,   \* the kinds of requests in flight
  died,       \* where the process ended, or "no"
  redirects   \* history: which keys the redirects of this process carried

vars == <<root, tab, loaded, token, userId, defaults, writes, firebase,
          requests, died, redirects>>

(* Values of session, controllers, records and requests. *)
TypeOK ==
  /\ root \in {"WebLogin", "TabBar", "none"}
  /\ tab \in Tabs
  /\ loaded \in SUBSET Tabs
  /\ token \in Value
  /\ userId \in Value
  /\ defaults \in [token : Value, userId : Value]
  /\ writes \in SUBSET User
  /\ firebase \in SUBSET User
  /\ requests \in SUBSET Request
  /\ died \in Ends \cup {"no"}
  /\ redirects \in SUBSET {"token", "id", "both"}

Init ==
  /\ root = "WebLogin"
  /\ tab = "Messenger"
  /\ loaded = {}
  /\ token = nil /\ userId = nil
  /\ defaults = [token |-> nil, userId |-> nil]
  /\ writes = {} /\ firebase = {}
  /\ requests = {}
  /\ died = "no"
  /\ redirects = {}

-----------------------------------------------------------------------------
(* The process ends: what only it holds is gone. *)
endProcess(where) ==
  /\ root' = "none"
  /\ loaded' = {}
  /\ requests' = {}
  /\ writes' = {}
  /\ died' = where

(* TabBarController.viewDidLoad: selects the Messenger, then unwraps the    *)
(* token t; the writes w are on their way.                                  *)
TabBarViewDidLoad(t, w) ==
  /\ tab' = "Messenger"
  /\ \/ /\ t # nil
        /\ root' = "TabBar"
        /\ loaded' = {"Messenger"}
        /\ writes' = w
        /\ UNCHANGED <<requests, died>>
     \/ /\ t = nil
        /\ endProcess("token")

(* The tab bar becomes the window's root, or the view is in no window. *)
launchTabBarController(t, w) ==
  \/ TabBarViewDidLoad(t, w)
  \/ writes' = w /\ UNCHANGED <<root, tab, loaded, requests, died>>

(* setValue queues a write of the child named after the user. *)
sendUserSessionToFirebase(f) == writes \cup ({f.user_id} \cap User)

(* A value that the fragment has replaces the old one. *)
given(new, old) == IF new = absent THEN old ELSE new

(* The keys of a fragment, for the history. *)
keys(f) ==
  CASE f.access_token # absent /\ f.user_id # absent -> {"both"}
    [] f.access_token # absent /\ f.user_id = absent -> {"token"}
    [] f.access_token = absent /\ f.user_id # absent -> {"id"}
    [] OTHER -> {}

(* Mutants: a key that is missing is stored all the same; a token that is   *)
(* there already is kept.                                                   *)
decidePolicyFor_StoresMissing(f) ==
  /\ root = "WebLogin"
  /\ token' = f.access_token
  /\ userId' = given(f.user_id, userId)
  /\ defaults' = [token |-> given(f.access_token, defaults.token),
                  userId |-> given(f.user_id, defaults.userId)]
  /\ redirects' = redirects \cup keys(f)
  /\ \/ /\ f.user_id = nil
        /\ endProcess("number")
        /\ UNCHANGED tab
     \/ /\ f.user_id # nil
        /\ launchTabBarController(token', sendUserSessionToFirebase(f))
  /\ UNCHANGED firebase

decidePolicyFor_KeepsToken(f) ==
  /\ root = "WebLogin"
  /\ token' = IF token = nil THEN given(f.access_token, token) ELSE token
  /\ userId' = given(f.user_id, userId)
  /\ defaults' = [token |-> given(f.access_token, defaults.token),
                  userId |-> given(f.user_id, defaults.userId)]
  /\ redirects' = redirects \cup keys(f)
  /\ \/ /\ f.user_id = nil
        /\ endProcess("number")
        /\ UNCHANGED tab
     \/ /\ f.user_id # nil
        /\ launchTabBarController(token', sendUserSessionToFirebase(f))
  /\ UNCHANGED firebase

(* The redirect to /blank.html.  Token and id are kept in UserSession and   *)
(* in UserDefaults, each if the fragment has it; an id goes to Firebase,    *)
(* unless it is no number, which ends the process; then the tab bar is      *)
(* launched, whatever the fragment had.                                     *)
decidePolicyFor(f) ==
  /\ root = "WebLogin"
  /\ token' = given(f.access_token, token)
  /\ userId' = given(f.user_id, userId)
  /\ defaults' = [token |-> given(f.access_token, defaults.token),
                  userId |-> given(f.user_id, defaults.userId)]
  /\ redirects' = redirects \cup keys(f)
  /\ \/ /\ f.user_id = nil
        /\ endProcess("number")
        /\ UNCHANGED tab
     \/ /\ f.user_id # nil
        /\ launchTabBarController(token', sendUserSessionToFirebase(f))
  /\ UNCHANGED firebase

(* A fragment with a component that has no "=" ends the process before      *)
(* anything is kept.                                                        *)
decidePolicyForBroken ==
  /\ root = "WebLogin"
  /\ endProcess("component")
  /\ UNCHANGED <<tab, token, userId, defaults, firebase, redirects>>

(* Firebase takes a write, or refuses it; nobody is told. *)
firebaseTakes(u) ==
  /\ firebase' = firebase \cup {u}
  /\ writes' = writes \ {u}
  /\ UNCHANGED <<root, tab, loaded, token, userId, defaults, requests, died, redirects>>

firebaseRefuses(u) ==
  /\ writes' = writes \ {u}
  /\ UNCHANGED <<root, tab, loaded, token, userId, defaults, firebase, requests,
                 died, redirects>>

(* Selecting a tab loads its screen the first time; a screen that sends a   *)
(* request unwraps the session as it is then.                               *)
selectTab(s) ==
  /\ root = "TabBar"
  /\ tab' = s
  /\ \/ /\ s \in Requesting \ loaded
        /\ userId = nil
        /\ endProcess("id")
     \/ /\ s \in Requesting \ loaded => userId # nil
        /\ loaded' = loaded \cup {s}
        /\ requests' = IF s \in Requesting \ loaded
                       THEN requests \cup {[search |-> FALSE, token |-> token, userId |-> userId]}
                       ELSE requests
        /\ UNCHANGED <<root, writes, died>>
  /\ UNCHANGED <<token, userId, defaults, firebase, redirects>>

(* Every change of the text in the search field behind the Groups screen    *)
(* sends a request.  The list it filters is always empty.                   *)
groupsSearch ==
  /\ root = "TabBar"
  /\ tab = "Groups"
  /\ requests' = requests \cup {[search |-> TRUE, token |-> token, userId |-> nil]}
  /\ UNCHANGED <<root, tab, loaded, token, userId, defaults, writes, firebase,
                 died, redirects>>

(* A search fails: its handler unwraps the missing value, which ends the    *)
(* process, on whatever screen and in whoever's session it comes.           *)
groupsSearchFails(r) ==
  /\ r.search
  /\ endProcess("search")
  /\ UNCHANGED <<tab, token, userId, defaults, firebase, redirects>>

(* The last request of a kind is answered, whoever is signed in by then. *)
replied(r) ==
  /\ requests' = requests \ {r}
  /\ UNCHANGED <<root, tab, loaded, token, userId, defaults, writes, firebase,
                 died, redirects>>

(* Mutant: signing out forgets the token. *)
signOutButton_Forgets ==
  /\ root = "TabBar"
  /\ tab = "Account"
  /\ root' = "WebLogin"
  /\ loaded' = {}
  /\ token' = nil
  /\ UNCHANGED <<tab, userId, defaults, writes, firebase, requests, died, redirects>>

(* AccountTableViewController.signOutButton: clears the keys of the login   *)
(* form and goes to the login screen.                                       *)
signOutButton ==
  /\ root = "TabBar"
  /\ tab = "Account"
  /\ root' = "WebLogin"
  /\ loaded' = {}
  /\ UNCHANGED <<tab, token, userId, defaults, writes, firebase, requests, died,
                 redirects>>

(* The process ends, or has crashed, and the app is started again. *)
Relaunch ==
  /\ root' = "WebLogin"
  /\ tab' = "Messenger"
  /\ loaded' = {}
  /\ token' = nil /\ userId' = nil
  /\ writes' = {}
  /\ requests' = {}
  /\ died' = "no"
  /\ redirects' = {}
  /\ UNCHANGED <<defaults, firebase>>

Next ==
  \/ \E f \in Fragment : decidePolicyFor(f)
  \/ decidePolicyForBroken
  \/ \E u \in writes : firebaseTakes(u) \/ firebaseRefuses(u)
  \/ \E s \in Tabs : selectTab(s)
  \/ groupsSearch
  \/ \E r \in requests : replied(r) \/ groupsSearchFails(r)
  \/ signOutButton
  \/ Relaunch

Spec == Init /\ [][Next]_vars

-----------------------------------------------------------------------------
(* A request carries a token and, except for a search, an id, since the     *)
(* unwraps of TabBarController and of the screens came first.  Token and id *)
(* are of one user, however often users sign in, are denied and sign out,   *)
(* unless the redirects of this process differed in the keys they carried:  *)
(* the two `if let` of decidePolicyFor are independent, and sign out leaves *)
(* both values, so a redirect with one key joins it to the other of an      *)
(* earlier login.                                                           *)
RequestsCarryOneSession ==
  \A r \in requests :
    /\ r.token # nil
    /\ r.search \/ r.userId # nil
    /\ \/ r.search \/ r.userId = r.token
       \/ \E a, b \in redirects : a # b

(* The tab bar finds no token only if no redirect of this process carried   *)
(* one, and a screen finds no id only if each redirect that carried         *)
(* anything carried the token alone: signing out, denied logins, and        *)
(* launches without a window lose neither.                                  *)
UnwrapsFailWithoutKey ==
  /\ died = "token" => redirects \subseteq {"id"}
  /\ died = "id" => redirects = {"token"}

-----------------------------------------------------------------------------
(* What the `!` in TabBarController.viewDidLoad asserts: the tab bar is     *)
(* launched with a token.  (Not after a redirect with an error.)            *)
TokenIsPresent == died # "token"
=============================================================================
