------------------------------- MODULE AdminUsers -------------------------------
(***************************************************************************)
(* The writers of the table users: add-users and reset-passwords of        *)
(* web/api.js, and the tool of admin-web over SSH (user_management.py,     *)
(* manage_users.py, user_passwords.py), which shares reset_password with   *)
(* the administration pages; and the kiosk's set_password.                 *)
(*                                                                         *)
(* Every query of api.js is a step of its own.  Python's sqlite3 opens its *)
(* transaction at the first write, so the tool's checks are steps of their *)
(* own too, and its writes one step.  The table is unique in names and in  *)
(* emails, by their exact letters; the tool compares without case.  All    *)
(* emails are at one host: an email is given by its local part, a Name.    *)
(***************************************************************************)
EXTENDS Naturals, Sequences, FiniteSets, SequencesExt

CONSTANTS Name,
          Lower,    \* a name in small letters
          Thread,   \* requests and sessions of the tool at once
          Batch,    \* emails reset at a time (BATCH_SIZE)
          Lists,    \* the lists of emails that are submitted
          MaxUser,  \* bound: users
          MaxJob,   \* bound: requests and actions of the tool
          None

\* What the constants have to be.
UsersAssumption ==
    /\ Lower \in [Name -> Name] /\ \A n \in Name : Lower[Lower[n]] = Lower[n]
    /\ Lists \subseteq Seq(Name) /\ <<>> \notin Lists
    /\ Batch \in Nat \ {0} /\ MaxUser \in Nat /\ MaxJob \in Nat /\ None \notin Name

VARIABLES users,   \* table users, by id
          audit,   \* audit_logs: what the tool wrote of a user
          thread,  \* a request or an action of the tool
          jobs,    \* counter of the bound MaxJob
          reports  \* history: what finished requests to reset passwords answered

vars == <<users, audit, thread, jobs, reports>>

\* history: a row is excused from being unique without case if it was added in
\* bulk or the table changed between the tool's check and its write.
User == [name : Name, mail : Name, password : BOOLEAN, excused : BOOLEAN]
Idle == [pc |-> "idle", list |-> <<>>, valid |-> <<>>, pos |-> 1, found |-> {}, missing |-> {}, done |-> {},
         id |-> 0, name |-> None, mail |-> None, quiet |-> TRUE]

Init ==
    /\ users = <<>> /\ audit = <<>>
    /\ thread = [t \in Thread |-> Idle]
    /\ jobs = 0
    /\ reports = {}

Ids == DOMAIN users

\* Writes to the table, and what they make of the others' checks.
Disturbed(t, changed) ==
    [u \in Thread |-> IF u # t /\ changed THEN [thread[u] EXCEPT !.quiet = FALSE] ELSE thread[u]]
At(t, r) == thread' = [thread EXCEPT ![t] = r]

----------------------------------------------------------------------------
(* add-users. *)

AddUsers(t, list) ==
    /\ thread[t] = Idle /\ jobs < MaxJob
    /\ jobs' = jobs + 1
    /\ At(t, [Idle EXCEPT !.pc = "conflicts", !.list = list])
    /\ UNCHANGED <<users, audit, reports>>

\* The places of a list whose entry nobody has as name or email.
Free(list) == {p \in DOMAIN list : \A i \in Ids : list[p] \notin {users[i].name, users[i].mail}}

\* A place for each entry that is kept, in their order.
Orders(places) ==
    {o \in [1..Cardinality(places) -> places] : \A p, q \in DOMAIN o : p < q => o[p] < o[q]}

ReadConflicts(t) ==
    /\ thread[t].pc = "conflicts"
    /\ \E o \in Orders(Free(thread[t].list)) :
          At(t, [thread[t] EXCEPT !.pc = "batch", !.valid = [p \in DOMAIN o |-> thread[t].list[o[p]]]])
    /\ UNCHANGED <<users, audit, jobs, reports>>

Bulk(n) == [name |-> n, mail |-> n, password |-> FALSE, excused |-> TRUE]

\* The indexes: exact names and emails, in the table and in the batch.
Unique(rows) ==
    \A i, j \in DOMAIN rows : i # j => rows[i].name # rows[j].name /\ rows[i].mail # rows[j].mail

\* One INSERT for the whole batch.
InsertedRows(list) == [i \in DOMAIN list |-> Bulk(list[i])]

InsertBatch(t) ==
    LET all == users \o InsertedRows(thread[t].valid)
    IN /\ thread[t].pc = "batch" /\ Len(users) + Len(thread[t].valid) <= MaxUser
       /\ users' = IF Unique(all) THEN all ELSE users
       /\ thread' = [Disturbed(t, users' # users) EXCEPT ![t] = Idle]
       /\ UNCHANGED <<audit, jobs, reports>>

----------------------------------------------------------------------------
(* reset-passwords: batch after batch, a query and an update each. *)

ResetPasswords(t, list) ==
    /\ thread[t] = Idle /\ jobs < MaxJob
    /\ jobs' = jobs + 1
    /\ At(t, [Idle EXCEPT !.pc = "existing", !.list = list])
    /\ UNCHANGED <<users, audit, reports>>

CurrentBatch(t) ==
    {thread[t].list[i] : i \in {j \in DOMAIN thread[t].list : j \in thread[t].pos..(thread[t].pos + Batch - 1)}}
Mails == {users[i].mail : i \in Ids}

Found(t) == CurrentBatch(t) \cap Mails

ReadExisting(t) ==
    /\ thread[t].pc = "existing"
    /\ At(t, [thread[t] EXCEPT !.pc = "update", !.found = Found(t),
                               !.missing = @ \cup (CurrentBatch(t) \ Mails)])
    /\ UNCHANGED <<users, audit, jobs, reports>>

UpdateBatch(t) ==
    LET hit == {i \in Ids : users[i].mail \in thread[t].found}
        done == thread[t].done \cup {users[i].mail : i \in hit}
        next == thread[t].pos + Batch
    IN /\ thread[t].pc = "update"
       /\ users' = [i \in Ids |-> IF i \in hit THEN [users[i] EXCEPT !.password = FALSE] ELSE users[i]]
       /\ IF next <= Len(thread[t].list)
          THEN /\ At(t, [thread[t] EXCEPT !.pc = "existing", !.pos = next, !.done = done])
               /\ UNCHANGED reports
          ELSE /\ At(t, Idle)
               /\ reports' = reports \cup {[quiet |-> thread[t].quiet, given |-> ToSet(thread[t].list),
                                            done |-> done, missing |-> thread[t].missing]}
       /\ UNCHANGED <<audit, jobs>>

----------------------------------------------------------------------------
(* The tool. *)

\* create_user: its email is stored in small letters.
Create(t, n, m) ==
    /\ thread[t] = Idle /\ jobs < MaxJob
    /\ jobs' = jobs + 1
    /\ At(t, [Idle EXCEPT !.pc = "ensure", !.name = n, !.mail = Lower[m]])
    /\ UNCHANGED <<users, audit, reports>>

\* select_user shows the user to be edited; what is left empty stays as shown.
Edit(t, i) ==
    /\ thread[t] = Idle /\ jobs < MaxJob
    /\ jobs' = jobs + 1
    /\ At(t, [Idle EXCEPT !.pc = "shown", !.id = i, !.name = users[i].name, !.mail = users[i].mail])
    /\ UNCHANGED <<users, audit, reports>>

Save(t, n, m) ==
    /\ thread[t].pc = "shown"
    /\ At(t, [thread[t] EXCEPT !.pc = "before", !.name = IF n = None THEN @ ELSE n,
                               !.mail = Lower[IF m = None THEN @ ELSE m]])
    /\ UNCHANGED <<users, audit, jobs, reports>>

ReadBefore(t) ==
    /\ thread[t].pc = "before"
    /\ At(t, [thread[t] EXCEPT !.pc = "ensure", !.valid = <<users[thread[t].id].name, users[thread[t].id].mail>>])
    /\ UNCHANGED <<users, audit, jobs, reports>>

\* Mutant of Same: the exact letters are compared.
Exactly(a, b) == a = b

Same(a, b) == Lower[a] = Lower[b]

\* ensure_unique_user: no other user has the name or the email, whatever the case.
Ensure(t) ==
    LET taken == \E i \in Ids \ {thread[t].id} :
                     Same(users[i].name, thread[t].name) \/ Same(users[i].mail, thread[t].mail)
    IN /\ thread[t].pc = "ensure"
       /\ At(t, IF taken THEN Idle ELSE [thread[t] EXCEPT !.pc = "write", !.quiet = TRUE])
       /\ UNCHANGED <<users, audit, jobs, reports>>

Entry(t, i, action) == [id |-> i, action |-> action, name |-> thread[t].name, mail |-> thread[t].mail,
                        before |-> thread[t].valid]

\* Mutant of RolledBack: the audit entry is committed by itself.
RolledBackButAudit(t) == users' = users /\ audit' = Append(audit, Entry(t, Len(users), "user.update"))

RolledBack(t) == UNCHANGED <<users, audit>>

\* The transaction of create_user (no id) or update_user, with its audit entry.
Write(t) ==
    LET w == thread[t]
        i == IF w.id = 0 THEN Len(users) + 1 ELSE w.id
        row == [name |-> w.name, mail |-> w.mail, excused |-> ~w.quiet,
                password |-> w.id # 0 /\ users[w.id].password]
        all == [j \in Ids \cup {i} |-> IF j = i THEN row ELSE users[j]]
    IN /\ w.pc = "write" /\ i <= MaxUser
       /\ IF Unique(all)
          THEN users' = all /\ audit' = Append(audit, Entry(t, i, IF w.id = 0 THEN "user.create" ELSE "user.update"))
          ELSE RolledBack(t)
       /\ thread' = [Disturbed(t, users' # users) EXCEPT ![t] = Idle]
       /\ UNCHANGED <<jobs, reports>>

----------------------------------------------------------------------------
(* Passwords of a single user. *)

\* reset_password, also of the administration pages: the user is read first.
ResetPassword(t, i) ==
    /\ thread[t] = Idle /\ jobs < MaxJob
    /\ jobs' = jobs + 1
    /\ At(t, [Idle EXCEPT !.pc = "reset", !.id = i, !.name = users[i].name, !.mail = users[i].mail])
    /\ UNCHANGED <<users, audit, reports>>

WriteReset(t) ==
    /\ thread[t].pc = "reset"
    /\ users' = [users EXCEPT ![thread[t].id].password = FALSE]
    /\ audit' = Append(audit, Entry(t, thread[t].id, "user.password_reset"))
    /\ At(t, Idle)
    /\ UNCHANGED <<jobs, reports>>

\* The kiosk's set_password.
SetPassword(i) ==
    /\ users' = [users EXCEPT ![i].password = TRUE]
    /\ UNCHANGED <<audit, thread, jobs, reports>>

\* A request or a session of the tool ends at any point; nothing is half written.
Crash(t) ==
    /\ thread[t] # Idle
    /\ At(t, Idle)
    /\ UNCHANGED <<users, audit, jobs, reports>>

Next ==
    \/ \E t \in Thread, list \in Lists : AddUsers(t, list) \/ ResetPasswords(t, list)
    \/ \E t \in Thread : \/ ReadConflicts(t) \/ InsertBatch(t) \/ ReadExisting(t) \/ UpdateBatch(t)
                         \/ ReadBefore(t) \/ Ensure(t) \/ Write(t) \/ WriteReset(t) \/ Crash(t)
    \/ \E t \in Thread, n, m \in Name : Create(t, n, m)
    \/ \E t \in Thread, n, m \in Name \cup {None} : Save(t, n, m)
    \/ \E t \in Thread, i \in Ids : Edit(t, i) \/ ResetPassword(t, i)
    \/ \E i \in Ids : SetPassword(i)

Spec == Init /\ [][Next]_vars

----------------------------------------------------------------------------
(* Properties. *)

\* The types of the variables; a report counts emails or rows.
TypeOK ==
    /\ users \in Seq(User) /\ Len(users) <= MaxUser /\ Unique(users)
    /\ \A t \in Thread : /\ thread[t].pc \in {"idle", "conflicts", "batch", "existing", "update", "shown",
                                             "before", "ensure", "write", "reset"}
                         /\ thread[t].id \in 0..Len(users)
                         /\ thread[t].pc = "ensure" => thread[t].mail = Lower[thread[t].mail]
    /\ jobs \in 0..MaxJob

\* Who was given to reset-passwords and is not reported as missing has been
\* reset, whatever batch he was in, unless users were written meanwhile.
ResetIsReported == \A r \in reports : r.quiet => r.done = r.given \ r.missing

\* Two users whose names or emails differ only in case were never both made by
\* the tool, unless the table was written between its check and its write.
NoVariants ==
    \A i, j \in Ids : i # j /\ ~users[i].excused /\ ~users[j].excused =>
        Lower[users[i].name] # Lower[users[j].name] /\ Lower[users[i].mail] # Lower[users[j].mail]

\* The last audit entry of a user tells the name and the email he has now.
AuditTellsUser ==
    LET writes == {k \in DOMAIN audit : audit[k].action # "user.password_reset"}
    IN \A k \in writes :
        (\A n \in writes : n > k => audit[n].id # audit[k].id) =>
            /\ audit[k].id \in Ids
            /\ users[audit[k].id].name = audit[k].name /\ users[audit[k].id].mail = audit[k].mail
=============================================================================
