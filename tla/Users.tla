------------------------------- MODULE Users -------------------------------
(***************************************************************************)
(* Accounts: the agent's users handler (handlers/users.go) with the tables *)
(* it writes, and the dashboard's users page (settings/users/page.tsx).    *)
(* A request is checked, and then acts; between the two other requests may *)
(* act.  Deleting a user hands his sites to the user who manages him, in   *)
(* one transaction that the foreign key on a site's owner can undo.        *)
(***************************************************************************)
EXTENDS Naturals, FiniteSets

CONSTANTS UserIds,       \* ids, in the order they are handed out
          Root,          \* the super administrator the set-up made
          Sites,
          MaxUserCalls,  \* bound: requests outstanding at once
          NoUser

ASSUME UsersAssumption ==
    UserIds \subseteq Nat /\ Root \in UserIds /\ NoUser \notin UserIds /\ MaxUserCalls \in Nat

VARIABLES accounts,  \* the users table: living id -> [role, managedBy]
          lastId,    \* its highest id so far: ids are not used again
          owner,     \* the sites table's user_id
          users,     \* the page
          userCalls  \* the requests not answered

userVars == <<accounts, lastId, owner, users, userCalls>>

(***************************************************************************)
(* State.  A request is "sent", then "checked", "done" or "failed"; "to"   *)
(* is the user a deletion hands the sites to, "found" what a listing read. *)
(* The page works for the user "me"; role is what it was told of him.      *)
(***************************************************************************)
Living  == DOMAIN accounts
Nobody  == [id \in {} |-> [role |-> "user", managedBy |-> NoUser]]
Account(role, manager) == [role |-> role, managedBy |-> manager]

Request(kind, by, of) ==
    [kind |-> kind, by |-> by, of |-> of, at |-> "sent", to |-> NoUser, found |-> Nobody]

UsersInit ==
    /\ \E others \in SUBSET (UserIds \ {Root}) :
         accounts \in {f \in [others \union {Root} -> [role : {"super_admin", "admin", "user"},
                                                       managedBy : {NoUser, Root}]] :
                         \A id \in DOMAIN f : IF id = Root THEN f[id] = Account("super_admin", NoUser)
                                              ELSE f[id].role # "super_admin" /\ f[id].managedBy = Root}
    /\ lastId \in Living /\ \A id \in Living : id <= lastId
    /\ owner \in [Sites -> Living]
    /\ \E me \in {id \in Living : accounts[id].role # "user"} :
         /\ users = [me |-> me, role |-> "none", shown |-> Nobody, loading |-> TRUE, error |-> FALSE,
                     dialog |-> "none", target |-> NoUser,
                     creating |-> FALSE, deleting |-> FALSE, changing |-> FALSE]
         /\ userCalls = {Request("list", me, NoUser)}

Becomes(c, d) == userCalls' = (userCalls \ {c}) \union {d}
Answered(c)   == userCalls' = userCalls \ {c}
Room          == Cardinality(userCalls) < MaxUserCalls

(***************************************************************************)
(* The agent                                                               *)
(***************************************************************************)
Administers(id) == id \in Living /\ accounts[id].role \in {"admin", "super_admin"}

\* Mutant: an administrator manages everybody.
ManagesAll(by, of) == accounts[by].role \in {"admin", "super_admin"}

\* canManageUser.
CanManage(by, of) ==
    \/ accounts[by].role = "super_admin"
    \/ accounts[by].role = "admin" /\ (accounts[of].role = "user" \/ accounts[of].managedBy = by)

\* The token's user is read again for every request, so a deleted user fails.
Allowed(c) ==
    /\ Administers(c.by)
    /\ c.kind \in {"delete", "password"} =>
         c.of \in Living /\ CanManage(c.by, c.of) /\ (c.kind = "delete" => c.of # c.by)

Heir(c) == IF accounts[c.of].managedBy # NoUser THEN accounts[c.of].managedBy ELSE c.by

CheckRequest(c) ==
    /\ c.at = "sent"
    /\ Becomes(c, IF ~Allowed(c) THEN [c EXCEPT !.at = "failed"]
                  ELSE [c EXCEPT !.at = "checked",
                                 !.to = IF c.kind = "delete" THEN Heir(c) ELSE NoUser])
    /\ UNCHANGED <<accounts, lastId, owner, users>>

ListUsers(c) ==
    /\ c.at = "checked" /\ c.kind = "list"
    /\ Becomes(c, [c EXCEPT !.at = "done", !.found = accounts])
    /\ UNCHANGED <<accounts, lastId, owner, users>>

\* Only a super administrator makes administrators.
CreateUser(c, id) ==
    /\ c.at = "checked" /\ c.kind \in {"create", "create-admin"}
    /\ id = lastId + 1
    /\ lastId' = id
    /\ LET admin == c.kind = "create-admin" /\ c.by \in Living
                    /\ accounts[c.by].role = "super_admin"
       IN accounts' = [i \in Living \union {id} |->
                         IF i = id THEN Account(IF admin THEN "admin" ELSE "user", c.by)
                         ELSE accounts[i]]
    /\ Becomes(c, [c EXCEPT !.at = "done"])
    /\ UNCHANGED <<owner, users>>

OwnsSites(id) == \E s \in Sites : owner[s] = id

\* Mutant: foreign keys are not enforced.
DeleteUnkeyed(c) ==
    /\ c.at = "checked" /\ c.kind = "delete"
    /\ owner' = [s \in Sites |-> IF owner[s] = c.of THEN c.to ELSE owner[s]]
    /\ accounts' = [i \in Living \ {c.of} |-> accounts[i]]
    /\ Becomes(c, [c EXCEPT !.at = "done"])
    /\ UNCHANGED <<lastId, users>>

\* DeleteUserWithTransfer: a site handed to a user who has gone breaks the
\* foreign key, and everything is rolled back.
DeleteUser(c) ==
    /\ c.at = "checked" /\ c.kind = "delete"
    /\ IF OwnsSites(c.of) /\ c.to \notin Living
       THEN Becomes(c, [c EXCEPT !.at = "failed"]) /\ UNCHANGED <<accounts, owner>>
       ELSE /\ owner' = [s \in Sites |-> IF owner[s] = c.of THEN c.to ELSE owner[s]]
            /\ accounts' = [i \in Living \ {c.of} |-> accounts[i]]
            /\ Becomes(c, [c EXCEPT !.at = "done"])
    /\ UNCHANGED <<lastId, users>>

ChangePassword(c) ==
    /\ c.at = "checked" /\ c.kind = "password"
    /\ Becomes(c, [c EXCEPT !.at = "done"])
    /\ UNCHANGED <<accounts, lastId, owner, users>>

ServeUserCall(c) == \/ CheckRequest(c) \/ ListUsers(c) \/ DeleteUser(c) \/ ChangePassword(c)
                    \/ \E id \in UserIds : CreateUser(c, id)

\* A site made for a user or transferred to him (handlers/containers.go).
AssignSite(s, id) ==
    /\ id \in Living
    /\ owner' = [owner EXCEPT ![s] = id]
    /\ UNCHANGED <<accounts, lastId, users, userCalls>>

\* Requests of other browsers and of the command line; their answers do not
\* reach the page.
RequestElsewhere(kind, by, of) ==
    /\ Room /\ by # users.me /\ by \in Living
    /\ userCalls' = userCalls \union {Request(kind, by, of)}
    /\ UNCHANGED <<accounts, lastId, owner, users>>

AnsweredElsewhere(c) ==
    /\ c.at \in {"done", "failed"} /\ c.by # users.me
    /\ Answered(c)
    /\ UNCHANGED <<accounts, lastId, owner, users>>

(***************************************************************************)
(* The page                                                                *)
(***************************************************************************)
Mine(c, kinds) == c.by = users.me /\ c.kind \in kinds /\ c.at \in {"done", "failed"}
PageShown      == ~users.loading /\ ~users.error

\* fetchUsers: a failure replaces the page by an error for good.
UsersListed(c) ==
    /\ Mine(c, {"list"})
    /\ users' = IF c.at = "done"
                THEN [users EXCEPT !.loading = FALSE, !.shown = c.found,
                         !.role = IF users.me \in DOMAIN c.found THEN c.found[users.me].role ELSE @]
                ELSE [users EXCEPT !.loading = FALSE, !.error = TRUE]
    /\ Answered(c)
    /\ UNCHANGED <<accounts, lastId, owner>>

\* The menu of a user: canDeleteUser, and passwords for the super administrator.
CanDelete(id) == id # users.me /\ (\/ users.role = "super_admin"
                                   \/ users.role = "admin" /\ users.shown[id].role = "user")

MenuOffers(op, id) == CASE op = "delete"   -> CanDelete(id)
                        [] op = "password" -> users.role = "super_admin"

OpenMenuItem(op, id) ==
    /\ PageShown /\ users.dialog = "none" /\ id \in DOMAIN users.shown /\ MenuOffers(op, id)
    /\ users' = [users EXCEPT !.dialog = op, !.target = id]
    /\ UNCHANGED <<accounts, lastId, owner, userCalls>>

OpenCreate ==
    /\ PageShown /\ users.dialog = "none" /\ users.role \in {"admin", "super_admin"}
    /\ users' = [users EXCEPT !.dialog = "create"]
    /\ UNCHANGED <<accounts, lastId, owner, userCalls>>

Shut(u) == [u EXCEPT !.dialog = "none", !.target = NoUser]

\* Cancel and the cross stay enabled while the request is out.
CancelUserDialog ==
    /\ PageShown /\ users.dialog # "none"
    /\ users' = Shut(users)
    /\ UNCHANGED <<accounts, lastId, owner, userCalls>>

Submit(dialog, kind, u) ==
    /\ PageShown /\ users.dialog = dialog /\ Room
    /\ users' = u
    /\ userCalls' = userCalls \union {Request(kind, users.me, users.target)}
    /\ UNCHANGED <<accounts, lastId, owner>>

SubmitDelete   == ~users.deleting /\ Submit("delete", "delete", [users EXCEPT !.deleting = TRUE])
SubmitPassword == ~users.changing /\ Submit("password", "password", [users EXCEPT !.changing = TRUE])
SubmitCreate   == \E kind \in {"create", "create-admin"} :
                      ~users.creating /\ Submit("create", kind, [users EXCEPT !.creating = TRUE])

\* An answer shuts the dialog of its kind, whichever user it is for, and a
\* creation or a deletion lists the users again.
Follow(c, dialog, u) ==
    LET shut == c.at = "done" /\ users.dialog = dialog
    IN /\ users' = IF shut THEN Shut(u) ELSE u
       /\ IF c.at = "done" /\ dialog # "password"
          THEN Becomes(c, Request("list", users.me, NoUser)) ELSE Answered(c)
       /\ UNCHANGED <<accounts, lastId, owner>>

UserDeleted(c)     == Mine(c, {"delete"}) /\ Follow(c, "delete", [users EXCEPT !.deleting = FALSE])
PasswordChanged(c) == Mine(c, {"password"}) /\ Follow(c, "password", [users EXCEPT !.changing = FALSE])
UserCreated(c)     == /\ Mine(c, {"create", "create-admin"})
                      /\ Follow(c, "create", [users EXCEPT !.creating = FALSE])

-----------------------------------------------------------------------------
UserAnswer(c) == \/ UsersListed(c) \/ UserDeleted(c) \/ PasswordChanged(c) \/ UserCreated(c)
                 \/ AnsweredElsewhere(c)

UserClick == \/ \E op \in {"delete", "password"}, id \in UserIds : OpenMenuItem(op, id)
             \/ OpenCreate \/ CancelUserDialog \/ SubmitDelete \/ SubmitPassword \/ SubmitCreate

UsersNext == \/ UserClick
             \/ \E c \in userCalls : ServeUserCall(c) \/ UserAnswer(c)
             \/ \E s \in Sites, id \in UserIds : AssignSite(s, id)
             \/ \E by \in UserIds : \/ RequestElsewhere("create", by, NoUser)
                                    \/ \E of \in Living : RequestElsewhere("delete", by, of)

UsersSpec == UsersInit /\ [][UsersNext]_userVars

(***************************************************************************)
(* Properties                                                              *)
(***************************************************************************)
\* Every site has a living owner, also when the heir of a deleted user is
\* deleted between the check and the transaction: the foreign key holds.
SitesHaveOwners == \A s \in Sites : owner[s] \in Living

\* Whatever is deleted, and by several administrators at once, somebody is
\* left who may manage everything.
SuperAdminRemains == Root \in Living

=============================================================================
