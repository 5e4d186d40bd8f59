----------------------------- MODULE UsersProofs -----------------------------
(***************************************************************************)
(* Every site keeps a living owner and the super administrator remains,    *)
(* for any number of users, sites and requests.  Neither is inductive: a   *)
(* deletion acts on what its check read, so the invariant says what every  *)
(* checked deletion still guarantees when it acts, whoever else has acted  *)
(* in between: it is not of the super administrator, and the heir it read  *)
(* is not the user himself.                                                *)
(***************************************************************************)
EXTENDS Users, TLAPS

AccountStates == [role : {"super_admin", "admin", "user"}, managedBy : UserIds \union {NoUser}]
Tables        == UNION {[ids -> AccountStates] : ids \in SUBSET UserIds}

Requests == [kind : {"list", "create", "create-admin", "delete", "password"}, by : UserIds,
             of : UserIds \union {NoUser}, at : {"sent", "checked", "done", "failed"},
             to : UserIds \union {NoUser}, found : Tables]

Pages == [me : UserIds, role : {"none", "super_admin", "admin", "user"}, shown : Tables,
          loading : BOOLEAN, error : BOOLEAN, dialog : {"none", "delete", "password", "create"},
          target : UserIds \union {NoUser}, creating : BOOLEAN, deleting : BOOLEAN, changing : BOOLEAN]

\* The users table: ids were handed out in order, the super administrator is
\* one and nobody's, and nobody manages himself.
AccountsOK ==
    /\ accounts \in Tables
    /\ lastId \in Nat
    /\ \A id \in Living : id <= lastId /\ accounts[id].managedBy # id
    /\ Root \in Living /\ accounts[Root].managedBy = NoUser
    /\ \A id \in Living : accounts[id].role = "super_admin" <=> id = Root

\* A request of a user known by then; a checked deletion is of neither the
\* super administrator nor its own heir.
RequestOK(c, last) ==
    /\ c \in Requests
    /\ c.by <= last
    /\ c.kind = "delete" /\ c.at = "checked" => c.of # Root /\ c.to # c.of

UsersInv ==
    /\ AccountsOK
    /\ owner \in [Sites -> Living]
    /\ users \in Pages /\ users.me <= lastId
    /\ \A c \in userCalls : RequestOK(c, lastId)

LEMMA NobodyIsATable == Nobody \in Tables
<1>1. Nobody \in [{} -> AccountStates]
  BY DEF Nobody
<1> QED
  BY <1>1 DEF Tables

\* The table as a function of the ids it holds.
LEMMA TableOfLiving ==
  ASSUME accounts \in Tables
  PROVE  Living \in SUBSET UserIds /\ accounts \in [Living -> AccountStates]
  BY DEF Tables, Living

\* A new request is sound.
LEMMA SentIsOK ==
  ASSUME NEW kind \in {"list", "create", "create-admin", "delete", "password"},
         NEW by \in UserIds, NEW of \in UserIds \union {NoUser}, NEW last, by <= last
  PROVE  RequestOK(Request(kind, by, of), last)
  BY NobodyIsATable DEF RequestOK, Requests, Request

\* The table after a row is added or removed.
LEMMA AddRow ==
  ASSUME accounts \in Tables, NEW id \in UserIds, NEW a \in AccountStates
  PROVE  [i \in Living \union {id} |-> IF i = id THEN a ELSE accounts[i]] \in Tables
<1>1. Living \union {id} \in SUBSET UserIds
  BY TableOfLiving
<1>2. [i \in Living \union {id} |-> IF i = id THEN a ELSE accounts[i]] \in [Living \union {id} -> AccountStates]
  BY TableOfLiving
<1> QED
  BY <1>1, <1>2 DEF Tables

LEMMA RemoveRow ==
  ASSUME accounts \in Tables, NEW id
  PROVE  [i \in Living \ {id} |-> accounts[i]] \in Tables
<1>1. Living \ {id} \in SUBSET UserIds
  BY TableOfLiving
<1>2. [i \in Living \ {id} |-> accounts[i]] \in [Living \ {id} -> AccountStates]
  BY TableOfLiving
<1> QED
  BY <1>1, <1>2 DEF Tables

LEMMA UsersInitially == UsersInit => UsersInv
<1> SUFFICES ASSUME UsersInit PROVE UsersInv
  OBVIOUS
<1>1. PICK others \in SUBSET (UserIds \ {Root}) :
        /\ accounts \in [others \union {Root} -> [role : {"super_admin", "admin", "user"},
                                                  managedBy : {NoUser, Root}]]
        /\ \A id \in DOMAIN accounts : IF id = Root THEN accounts[id] = Account("super_admin", NoUser)
                                       ELSE accounts[id].role # "super_admin" /\ accounts[id].managedBy = Root
  BY DEF UsersInit
<1>2. Living = others \union {Root} /\ Living \in SUBSET UserIds
  BY <1>1, UsersAssumption DEF Living
<1>3. accounts \in [Living -> AccountStates]
  BY <1>1, <1>2, UsersAssumption DEF AccountStates
<1>4. AccountsOK
  <2>1. accounts \in Tables
    BY <1>2, <1>3 DEF Tables
  <2>2. lastId \in Nat /\ \A id \in Living : id <= lastId
    BY <1>2, UsersAssumption DEF UsersInit
  <2>3. accounts[Root].role = "super_admin" /\ accounts[Root].managedBy = NoUser
    BY <1>1 DEF Account
  <2>4. \A id \in Living : id # Root => accounts[id].role # "super_admin" /\ accounts[id].managedBy = Root
    BY <1>1 DEF Living
  <2> QED
    BY <1>2, <2>1, <2>2, <2>3, <2>4, UsersAssumption DEF AccountsOK
<1>5. PICK me \in Living :
        /\ users = [me |-> me, role |-> "none", shown |-> Nobody, loading |-> TRUE, error |-> FALSE,
                    dialog |-> "none", target |-> NoUser,
                    creating |-> FALSE, deleting |-> FALSE, changing |-> FALSE]
        /\ userCalls = {Request("list", me, NoUser)}
  BY DEF UsersInit
<1>6. users \in Pages /\ users.me = me
  BY <1>2, <1>5, NobodyIsATable DEF Pages
<1>7. RequestOK(Request("list", me, NoUser), lastId)
  BY <1>2, <1>4, SentIsOK DEF AccountsOK
<1>8. owner \in [Sites -> Living]
  BY DEF UsersInit
<1> QED
  BY <1>4, <1>5, <1>6, <1>7, <1>8 DEF UsersInv, AccountsOK

\* A step that leaves the tables alone, keeps the page's user and adds sound
\* requests only keeps the invariant.
LEMMA TablesAlone ==
  ASSUME UsersInv, UNCHANGED <<accounts, lastId, owner>>,
         users' \in Pages, users'.me = users.me,
         \A c \in userCalls' : c \in userCalls \/ RequestOK(c, lastId)
  PROVE  UsersInv'
  BY DEF UsersInv, AccountsOK, Living

-----------------------------------------------------------------------------
\* The agent's steps
LEMMA CheckKeeps == ASSUME UsersInv, NEW c \in userCalls, CheckRequest(c) PROVE UsersInv'
<1>1. RequestOK(c, lastId) /\ AccountsOK
  BY DEF UsersInv
<1>2. c \in Requests /\ c.by <= lastId
  BY <1>1 DEF RequestOK
<1> DEFINE refused == [c EXCEPT !.at = "failed"]
           passed(to) == [c EXCEPT !.at = "checked", !.to = to]
<1>3. RequestOK(refused, lastId)
  BY <1>2 DEF RequestOK, Requests
<1>4. ASSUME NEW to \in UserIds \union {NoUser}, c.kind = "delete" => c.of # Root /\ to # c.of
      PROVE  RequestOK(passed(to), lastId)
  <2>1. passed(to) \in Requests /\ passed(to).by = c.by /\ passed(to).kind = c.kind
        /\ passed(to).of = c.of /\ passed(to).to = to
    BY <1>2 DEF Requests
  <2> HIDE DEF passed
  <2> QED
    BY <1>2, <1>4, <2>1 DEF RequestOK
<1>5. ASSUME Allowed(c), c.kind = "delete"
      PROVE  c.of # Root /\ Heir(c) \in UserIds \union {NoUser} /\ Heir(c) # c.of
  <2>1. c.of \in Living /\ c.of # c.by /\ CanManage(c.by, c.of) /\ c.by \in Living
    BY <1>5 DEF Allowed, Administers
  <2>2. accounts[c.of] \in AccountStates
    BY <1>1, <2>1, TableOfLiving DEF AccountsOK
  <2>3. accounts[c.of].managedBy \in UserIds \union {NoUser} /\ accounts[c.of].managedBy # c.of
    BY <1>1, <2>1, <2>2 DEF AccountStates, AccountsOK
  <2>4. Heir(c) \in UserIds \union {NoUser} /\ Heir(c) # c.of
    BY <1>2, <2>1, <2>3 DEF Heir, Requests
  <2>5. ASSUME c.of = Root PROVE FALSE
    <3>1. accounts[Root].role = "super_admin" /\ (accounts[c.by].role = "super_admin" => c.by = Root)
      BY <1>1, <2>1 DEF AccountsOK
    <3>2. accounts[c.of].role # "user" /\ accounts[c.by].role # "super_admin"
      BY <2>1, <2>5, <3>1
    <3>3. accounts[c.of].managedBy = c.by
      BY <2>1, <3>2 DEF CanManage
    <3> QED
      BY <1>1, <1>2, <2>5, <3>3, UsersAssumption DEF AccountsOK, Requests
  <2> QED
    BY <2>4, <2>5
<1> DEFINE to == IF c.kind = "delete" THEN Heir(c) ELSE NoUser
           d  == IF ~Allowed(c) THEN refused ELSE passed(to)
<1>6. RequestOK(d, lastId)
  <2>1. CASE ~Allowed(c)
    BY <1>3, <2>1
  <2>2. CASE Allowed(c)
    <3>1. to \in UserIds \union {NoUser} /\ (c.kind = "delete" => c.of # Root /\ to # c.of)
      BY <1>5, <2>2
    <3> HIDE DEF to, passed
    <3> QED
      BY <1>4, <2>2, <3>1
  <2> QED
    BY <2>1, <2>2
<1>7. userCalls' = (userCalls \ {c}) \union {d} /\ UNCHANGED <<accounts, lastId, owner, users>>
  BY DEF CheckRequest, Becomes
<1> HIDE DEF d
<1> QED
  BY <1>6, <1>7, TablesAlone DEF UsersInv

\* The answer of a request that acted.
LEMMA ActedIsOK ==
  ASSUME NEW last, NEW c, RequestOK(c, last), NEW at \in {"done", "failed"}
  PROVE  RequestOK([c EXCEPT !.at = at], last)
<1>1. c \in Requests /\ c.by <= last
  BY DEF RequestOK
<1> QED
  BY <1>1 DEF RequestOK, Requests

LEMMA ListKeeps == ASSUME UsersInv, NEW c \in userCalls, ListUsers(c) PROVE UsersInv'
<1>1. c \in Requests /\ c.by <= lastId /\ accounts \in Tables
  BY DEF UsersInv, RequestOK, AccountsOK
<1> DEFINE d == [c EXCEPT !.at = "done", !.found = accounts]
<1>2. RequestOK(d, lastId)
  BY <1>1 DEF RequestOK, Requests
<1>3. userCalls' = (userCalls \ {c}) \union {d} /\ UNCHANGED <<accounts, lastId, owner, users>>
  BY DEF ListUsers, Becomes
<1> HIDE DEF d
<1> QED
  BY <1>2, <1>3, TablesAlone DEF UsersInv

LEMMA PasswordKeeps == ASSUME UsersInv, NEW c \in userCalls, ChangePassword(c) PROVE UsersInv'
<1> DEFINE d == [c EXCEPT !.at = "done"]
<1>1. RequestOK(d, lastId)
  BY ActedIsOK DEF UsersInv
<1>2. userCalls' = (userCalls \ {c}) \union {d} /\ UNCHANGED <<accounts, lastId, owner, users>>
  BY DEF ChangePassword, Becomes
<1> HIDE DEF d
<1> QED
  BY <1>1, <1>2, TablesAlone DEF UsersInv

\* A new user gets an id above all others, so he does not manage himself.
LEMMA CreateKeeps == ASSUME UsersInv, NEW c \in userCalls, NEW id \in UserIds, CreateUser(c, id) PROVE UsersInv'
<1>1. RequestOK(c, lastId) /\ AccountsOK /\ owner \in [Sites -> Living] /\ users \in Pages /\ users.me <= lastId
  BY DEF UsersInv
<1>2. c.by \in UserIds /\ c.by <= lastId /\ lastId \in Nat /\ id = lastId + 1 /\ lastId' = id
  BY <1>1 DEF RequestOK, Requests, AccountsOK, CreateUser
<1> DEFINE role == IF c.kind = "create-admin" /\ c.by \in Living /\ accounts[c.by].role = "super_admin"
                   THEN "admin" ELSE "user"
           a == Account(role, c.by)
           d == [c EXCEPT !.at = "done"]
<1>3. a \in AccountStates /\ a.role # "super_admin" /\ a.managedBy = c.by
  BY <1>2 DEF AccountStates, Account
<1>4. /\ accounts' = [i \in Living \union {id} |-> IF i = id THEN a ELSE accounts[i]]
      /\ userCalls' = (userCalls \ {c}) \union {d}
      /\ UNCHANGED <<owner, users>>
  BY DEF CreateUser, Becomes
<1>5. RequestOK(d, lastId)
  BY <1>1, ActedIsOK
<1> HIDE DEF a, d, role
<1>6. id \notin Living /\ id # Root /\ c.by # id
  BY <1>1, <1>2, UsersAssumption DEF AccountsOK
<1>7. Living' = Living \union {id} /\ accounts'[id] = a /\ \A i \in Living : accounts'[i] = accounts[i]
  BY <1>4, <1>6 DEF Living
<1>8. accounts' \in Tables
  BY <1>1, <1>3, <1>4, AddRow DEF AccountsOK
<1>9. AccountsOK'
  <2>1. \A i \in Living' : i <= lastId' /\ accounts'[i].managedBy # i
    <3>1. \A i \in Living : i \in Nat
      BY <1>1, TableOfLiving, UsersAssumption DEF AccountsOK
    <3> QED
      BY <1>1, <1>2, <1>3, <1>6, <1>7, <3>1 DEF AccountsOK
  <2>2. Root \in Living' /\ accounts'[Root].managedBy = NoUser
    BY <1>1, <1>7 DEF AccountsOK
  <2>3. \A i \in Living' : accounts'[i].role = "super_admin" <=> i = Root
    BY <1>1, <1>3, <1>6, <1>7 DEF AccountsOK
  <2>4. lastId' \in Nat
    BY <1>2
  <2> QED
    BY <1>8, <2>1, <2>2, <2>3, <2>4 DEF AccountsOK
<1>10. \A r : RequestOK(r, lastId) => RequestOK(r, lastId')
  <2> SUFFICES ASSUME NEW r, RequestOK(r, lastId) PROVE RequestOK(r, lastId')
    OBVIOUS
  <2>1. r \in Requests /\ r.by <= lastId
    BY DEF RequestOK
  <2>2. r.by \in Nat
    BY <2>1, UsersAssumption DEF Requests
  <2>3. r.by <= lastId'
    BY <1>2, <2>1, <2>2
  <2> QED
    BY <2>3 DEF RequestOK
<1>11. \A r \in userCalls' : RequestOK(r, lastId')
  BY <1>4, <1>5, <1>10 DEF UsersInv
<1>12. owner' \in [Sites -> Living']
  BY <1>1, <1>4, <1>7
<1>13. users' \in Pages /\ users'.me <= lastId'
  <2>1. users.me \in Nat
    BY <1>1, UsersAssumption DEF Pages
  <2> QED
    BY <1>1, <1>2, <1>4, <2>1
<1> QED
  BY <1>9, <1>11, <1>12, <1>13 DEF UsersInv

\* A deletion that is not rolled back leaves every site with somebody who is
\* still there: he was not the heir of anything, or the heir lives.
LEMMA DeleteKeeps == ASSUME UsersInv, NEW c \in userCalls, DeleteUser(c) PROVE UsersInv'
<1>1. RequestOK(c, lastId) /\ AccountsOK /\ owner \in [Sites -> Living] /\ users \in Pages /\ users.me <= lastId
  BY DEF UsersInv
<1>2. c.of # Root /\ c.to # c.of
  BY <1>1 DEF RequestOK, DeleteUser
<1> DEFINE done == [c EXCEPT !.at = "done"]
           failed == [c EXCEPT !.at = "failed"]
<1>3. RequestOK(done, lastId) /\ RequestOK(failed, lastId)
  BY <1>1, ActedIsOK
<1>4. UNCHANGED <<lastId, users>>
  BY DEF DeleteUser
<1>5. CASE OwnsSites(c.of) /\ c.to \notin Living
  <2>1. userCalls' = (userCalls \ {c}) \union {failed} /\ UNCHANGED <<accounts, owner>>
    BY <1>5 DEF DeleteUser, Becomes
  <2> HIDE DEF failed
  <2> QED
    BY <1>3, <1>4, <2>1, TablesAlone DEF UsersInv
<1>6. CASE ~(OwnsSites(c.of) /\ c.to \notin Living)
  <2>1. /\ userCalls' = (userCalls \ {c}) \union {done}
        /\ owner' = [s \in Sites |-> IF owner[s] = c.of THEN c.to ELSE owner[s]]
        /\ accounts' = [i \in Living \ {c.of} |-> accounts[i]]
    BY <1>6 DEF DeleteUser, Becomes
  <2> HIDE DEF done, failed
  <2>2. Living' = Living \ {c.of} /\ \A i \in Living' : accounts'[i] = accounts[i]
    BY <2>1 DEF Living
  <2>3. accounts' \in Tables
    BY <1>1, <2>1, RemoveRow DEF AccountsOK
  <2>4. AccountsOK'
    BY <1>1, <1>2, <1>4, <2>2, <2>3 DEF AccountsOK
  <2>5. \A s \in Sites : (IF owner[s] = c.of THEN c.to ELSE owner[s]) \in Living'
    BY <1>1, <1>2, <1>6, <2>2 DEF OwnsSites
  <2>6. owner' \in [Sites -> Living']
    BY <2>1, <2>5
  <2>7. \A r \in userCalls' : RequestOK(r, lastId')
    BY <1>3, <1>4, <2>1 DEF UsersInv
  <2> QED
    BY <1>1, <1>4, <2>4, <2>6, <2>7 DEF UsersInv
<1> QED
  BY <1>5, <1>6

LEMMA AssignKeeps == ASSUME UsersInv, NEW s \in Sites, NEW id, AssignSite(s, id) PROVE UsersInv'
  BY DEF AssignSite, UsersInv, AccountsOK, Living

LEMMA ElsewhereKeeps ==
  ASSUME UsersInv, NEW kind \in {"create", "delete"}, NEW by \in UserIds, NEW of \in Living \union {NoUser},
         RequestElsewhere(kind, by, of)
  PROVE  UsersInv'
<1>1. of \in UserIds \union {NoUser} /\ by <= lastId
  BY TableOfLiving DEF UsersInv, AccountsOK, RequestElsewhere
<1>2. RequestOK(Request(kind, by, of), lastId)
  BY <1>1, SentIsOK
<1> QED
  BY <1>2, TablesAlone DEF RequestElsewhere, UsersInv

-----------------------------------------------------------------------------
\* The page's steps
LEMMA ListedKeeps == ASSUME UsersInv, NEW c \in userCalls, UsersListed(c) PROVE UsersInv'
<1>1. c \in Requests /\ users \in Pages
  BY DEF UsersInv, RequestOK
<1>2. c.found \in Tables /\ \A id \in DOMAIN c.found : c.found[id].role \in {"super_admin", "admin", "user"}
  BY <1>1 DEF Requests, Tables, AccountStates
<1> DEFINE role == IF users.me \in DOMAIN c.found THEN c.found[users.me].role ELSE users.role
<1>3. role \in {"none", "super_admin", "admin", "user"}
  BY <1>1, <1>2 DEF Pages
<1>4. users' = IF c.at = "done" THEN [users EXCEPT !.loading = FALSE, !.shown = c.found, !.role = role]
               ELSE [users EXCEPT !.loading = FALSE, !.error = TRUE]
  BY <1>1 DEF UsersListed, Pages
<1> HIDE DEF role
<1>5. users' \in Pages /\ users'.me = users.me
  <2>1. CASE c.at = "done"
    BY <1>1, <1>2, <1>3, <1>4, <2>1 DEF Pages
  <2>2. CASE c.at # "done"
    BY <1>1, <1>4, <2>2 DEF Pages
  <2> QED
    BY <2>1, <2>2
<1> QED
  BY <1>5, TablesAlone DEF UsersListed, Answered

\* Opening and leaving dialogs.
LEMMA ClickKeeps ==
  ASSUME UsersInv, \/ \E op \in {"delete", "password"}, id \in UserIds : OpenMenuItem(op, id)
                   \/ OpenCreate \/ CancelUserDialog
  PROVE  UsersInv'
<1>1. users \in Pages
  BY DEF UsersInv
<1>2. users' \in Pages /\ users'.me = users.me
  BY <1>1 DEF Pages, OpenMenuItem, OpenCreate, CancelUserDialog, Shut
<1> QED
  BY <1>2, TablesAlone DEF OpenMenuItem, OpenCreate, CancelUserDialog

\* A dialog's button sends one request of the page's user.
LEMMA SubmitKeeps ==
  ASSUME UsersInv, SubmitDelete \/ SubmitPassword \/ SubmitCreate
  PROVE  UsersInv'
<1>1. users \in Pages /\ users.me <= lastId /\ users.me \in UserIds /\ users.target \in UserIds \union {NoUser}
  BY DEF UsersInv, Pages
<1>2. ASSUME NEW kind \in {"create", "create-admin", "delete", "password"}, NEW dialog, NEW u \in Pages,
             u.me = users.me, Submit(dialog, kind, u)
      PROVE  UsersInv'
  <2>1. RequestOK(Request(kind, users.me, users.target), lastId)
    BY <1>1, SentIsOK
  <2> QED
    BY <1>2, <2>1, TablesAlone DEF Submit
<1>3. /\ [users EXCEPT !.deleting = TRUE] \in Pages /\ [users EXCEPT !.deleting = TRUE].me = users.me
      /\ [users EXCEPT !.changing = TRUE] \in Pages /\ [users EXCEPT !.changing = TRUE].me = users.me
      /\ [users EXCEPT !.creating = TRUE] \in Pages /\ [users EXCEPT !.creating = TRUE].me = users.me
  BY <1>1 DEF Pages
<1> QED
  BY <1>2, <1>3 DEF SubmitDelete, SubmitPassword, SubmitCreate

\* The answers of the page's requests.
LEMMA FollowKeeps ==
  ASSUME UsersInv, NEW c \in userCalls, NEW dialog, NEW u \in Pages, u.me = users.me, Follow(c, dialog, u)
  PROVE  UsersInv'
<1>1. users.me <= lastId /\ users.me \in UserIds
  BY DEF UsersInv, Pages
<1>2. Shut(u) \in Pages /\ Shut(u).me = users.me
  BY DEF Shut, Pages
<1>3. users' \in Pages /\ users'.me = users.me
  BY <1>2 DEF Follow
<1>4. RequestOK(Request("list", users.me, NoUser), lastId)
  BY <1>1, SentIsOK
<1>5. UNCHANGED <<accounts, lastId, owner>> /\ \A r \in userCalls' : r \in userCalls \/ RequestOK(r, lastId)
  BY <1>4 DEF Follow, Becomes, Answered
<1> QED
  BY <1>3, <1>5, TablesAlone

LEMMA AnswerKeeps == ASSUME UsersInv, NEW c \in userCalls, UserAnswer(c) PROVE UsersInv'
<1>1. users \in Pages
  BY DEF UsersInv
<1>2. /\ [users EXCEPT !.deleting = FALSE] \in Pages /\ [users EXCEPT !.deleting = FALSE].me = users.me
      /\ [users EXCEPT !.changing = FALSE] \in Pages /\ [users EXCEPT !.changing = FALSE].me = users.me
      /\ [users EXCEPT !.creating = FALSE] \in Pages /\ [users EXCEPT !.creating = FALSE].me = users.me
  BY <1>1 DEF Pages
<1>3. CASE UsersListed(c)
  BY <1>3, ListedKeeps
<1>4. CASE UserDeleted(c) \/ PasswordChanged(c) \/ UserCreated(c)
  BY <1>2, <1>4, FollowKeeps DEF UserDeleted, PasswordChanged, UserCreated
<1>5. CASE AnsweredElsewhere(c)
  BY <1>1, <1>5, TablesAlone DEF AnsweredElsewhere, Answered
<1> QED
  BY <1>3, <1>4, <1>5 DEF UserAnswer

-----------------------------------------------------------------------------
LEMMA UsersStep == UsersInv /\ [UsersNext]_userVars => UsersInv'
<1> SUFFICES ASSUME UsersInv, [UsersNext]_userVars PROVE UsersInv'
  OBVIOUS
<1>1. CASE UserClick
  BY <1>1, ClickKeeps, SubmitKeeps DEF UserClick
<1>2. CASE \E c \in userCalls : ServeUserCall(c)
  BY <1>2, CheckKeeps, ListKeeps, DeleteKeeps, PasswordKeeps, CreateKeeps DEF ServeUserCall
<1>3. CASE \E c \in userCalls : UserAnswer(c)
  BY <1>3, AnswerKeeps
<1>4. CASE \E s \in Sites, id \in UserIds : AssignSite(s, id)
  BY <1>4, AssignKeeps
<1>5. CASE \E by \in UserIds : \/ RequestElsewhere("create", by, NoUser)
                               \/ \E of \in Living : RequestElsewhere("delete", by, of)
  BY <1>5, ElsewhereKeeps
<1>6. CASE UNCHANGED userVars
  BY <1>6 DEF userVars, UsersInv, AccountsOK, Living
<1> QED
  BY <1>1, <1>2, <1>3, <1>4, <1>5, <1>6 DEF UsersNext

\* Whatever the checks read has become by the time a request acts, a deletion
\* is still of somebody else than the super administrator and never hands
\* the sites to the user it removes (handlers/users.go).
THEOREM ChecksStillHold == UsersSpec => []UsersInv
  BY UsersInitially, UsersStep, PTL DEF UsersSpec

\* Every site has a living owner at all times (DeleteUserWithTransfer and the
\* foreign key), for any number of users, sites and requests.
THEOREM EverySiteHasAnOwner == UsersSpec => []SitesHaveOwners
<1>1. UsersInv => SitesHaveOwners
  BY DEF UsersInv, SitesHaveOwners
<1> QED
  BY <1>1, ChecksStillHold, PTL

\* The super administrator is never deleted (canManageUser and the check
\* against deleting oneself), however many administrators delete at once.
THEOREM TheSuperAdminStays == UsersSpec => []SuperAdminRemains
<1>1. UsersInv => SuperAdminRemains
  BY DEF UsersInv, AccountsOK, SuperAdminRemains
<1> QED
  BY <1>1, ChecksStillHold, PTL

=============================================================================
