------------------------------ MODULE Database ------------------------------
(***************************************************************************)
(* Who may see which pages: the SQLite file that application_database_init *)
(* sets up and application_check_authorisation asks, in                    *)
(* src/application.cpp, with the group number that                         *)
(* appauth_parse_first_number takes from the path.                         *)
(*                                                                         *)
(* Several processes share the file: more than one server may be started   *)
(* on it, and appsrc/filemannospawn.cpp names the same file.  A statement  *)
(* of SQLite is atomic; it fails, and its exception ends the process,      *)
(* whenever it likes (the file is locked, the disk is full).  External:    *)
(* SQLite, the statements INITDB_STATEMENTS of a site, the hook of a site  *)
(* that calls application_check_authorisation, and the operator who enters *)
(* the members of groups.                                                  *)
(***************************************************************************)
EXTENDS PathNumber

CONSTANTS Servers,       \* the processes
          Users,         \* names of users
          Groups,        \* the groups that have members
          SiteMembers,   \* the rows that INITDB_STATEMENTS enters
          Paths,         \* the paths that are asked for
          Component,     \* the place of the group's number in a path
          NoVerdict      \* nobody was admitted or refused

(* A member of this group may see every page.                              *)
Everywhere == 1

ASSUME GroupsAssumption == Groups \subseteq Nat \ {0}
ASSUME SiteMembersAssumption == SiteMembers \subseteq Users \X Groups
ASSUME PathsAssumption == Paths \subseteq Seq(STRING)
ASSUME DatabaseValuesAssumption ==
    /\ Component \in Nat \ {0}
    /\ NoVerdict \notin [user : Users, path : Paths, count : 0..2]

VARIABLES file,         \* the database file exists
          table,        \* the table users exists
          users,        \* its rows
          pc,           \* where a process is
          initialise,   \* initialise_database of a process
          members,      \* history: every row that was ever entered
          drops,        \* history: how often users was dropped, up to twice
          interrupted,  \* history: a process ended while it initialised
          verdict       \* history: the latest answer given since the members
                        \* changed

databaseVars == <<file, table, users, pc, initialise, members, drops, interrupted, verdict>>

Initialising == {"drop users", "create users", "groups", "site"}

-----------------------------------------------------------------------------
(* A new site, or one whose file was set up before.                        *)
DatabaseInit == /\ file \in BOOLEAN /\ table = file /\ users = {}
                /\ pc = [s \in Servers |-> "down"]
                /\ initialise = [s \in Servers |-> FALSE]
                /\ members = {} /\ drops = 0 /\ interrupted = FALSE
                /\ verdict = NoVerdict

(* filesystem_fileexists                                                   *)
database_init_looks_always(s) ==
    /\ pc[s] = "down"
    /\ initialise' = [initialise EXCEPT ![s] = TRUE]
    /\ pc' = [pc EXCEPT ![s] = "open"]
    /\ UNCHANGED <<file, table, users, members, drops, interrupted, verdict>>

database_init_looks_too_late(s) ==
    /\ pc[s] = "down"
    /\ initialise' = [initialise EXCEPT ![s] = FALSE]
    /\ pc' = [pc EXCEPT ![s] = "open"]
    /\ UNCHANGED <<file, table, users, members, drops, interrupted, verdict>>

database_init_looks(s) ==
    /\ pc[s] = "down"
    /\ initialise' = [initialise EXCEPT ![s] = ~file]
    /\ pc' = [pc EXCEPT ![s] = "open"]
    /\ UNCHANGED <<file, table, users, members, drops, interrupted, verdict>>

(* The connection; SQLite makes the file now or with the first statement.  *)
database_init_opens(s) ==
    /\ pc[s] = "open"
    /\ file' \in {file, TRUE}
    /\ pc' = [pc EXCEPT ![s] = IF initialise[s] THEN "drop users" ELSE "serving"]
    /\ UNCHANGED <<table, users, initialise, members, drops, interrupted, verdict>>

(* One statement, and where the process goes on.                           *)
Statement(s, from, to) == /\ pc[s] = from
                          /\ pc' = [pc EXCEPT ![s] = to]
                          /\ file' = TRUE
                          /\ UNCHANGED <<initialise, interrupted>>

drop_users(s) == /\ Statement(s, "drop users", "create users")
                 /\ table' = FALSE /\ users' = {}
                 /\ drops' = IF drops = 2 THEN 2 ELSE drops + 1
                 /\ UNCHANGED <<members, verdict>>

create_users(s) == /\ Statement(s, "create users", "groups")
                   /\ table' = TRUE
                   /\ UNCHANGED <<users, members, drops, verdict>>

(* The table groups, which no code of the server reads.                    *)
drop_and_create_groups(s) == /\ Statement(s, "groups", "site")
                             /\ UNCHANGED <<table, users, members, drops, verdict>>

initdb_statements(s) == /\ Statement(s, "site", "serving")
                        /\ SiteMembers # {} => table
                        /\ UNCHANGED <<table, drops>>
                        /\ users' = users \cup SiteMembers
                        /\ members' = members \cup SiteMembers
                        /\ verdict' = NoVerdict

(* An exception, or the end of the process for a reason of its own.        *)
ServerEnds(s) == /\ pc[s] # "down"
                 /\ pc' = [pc EXCEPT ![s] = "down"]
                 /\ interrupted' = (interrupted \/ pc[s] \in Initialising)
                 /\ UNCHANGED <<file, table, users, initialise, members, drops, verdict>>

(* The operator enters a member (external).                                *)
AddMember(user, group) == /\ table /\ <<user, group>> \notin users
                          /\ users' = users \cup {<<user, group>>}
                          /\ members' = members \cup {<<user, group>>}
                          /\ verdict' = NoVerdict
                          /\ UNCHANGED <<file, table, pc, initialise, drops, interrupted>>

(* SELECT COUNT( * ); a table that is missing is an exception.             *)
check_authorisation_unparenthesised(user, client_id) ==
    IF client_id <= 0 THEN 0
    ELSE Cardinality({row \in users : row = <<user, client_id>> \/ row[2] = Everywhere})

application_check_authorisation(user, client_id) ==
    IF client_id <= 0 THEN 0
    ELSE Cardinality({group \in {client_id, Everywhere} : <<user, group>> \in users})

(* The hook of a site (external): the group a page belongs to is a number  *)
(* in its path.                                                            *)
GroupOf == [path \in Paths |-> appauth_parse_first_number(Component, path)]

CheckPage(s, user, path) ==
    /\ pc[s] = "serving"
    /\ table \/ GroupOf[path] <= 0
    /\ verdict' = [user |-> user, path |-> path,
                   count |-> application_check_authorisation(user, GroupOf[path])]
    /\ UNCHANGED <<file, table, users, pc, initialise, members, drops, interrupted>>

DatabaseNext ==
    \/ \E s \in Servers :
          \/ database_init_looks(s) \/ database_init_opens(s)
          \/ drop_users(s) \/ create_users(s) \/ drop_and_create_groups(s)
          \/ initdb_statements(s) \/ ServerEnds(s)
          \/ \E user \in Users, path \in Paths : CheckPage(s, user, path)
    \/ \E user \in Users, group \in Groups : AddMember(user, group)

DatabaseSpec == DatabaseInit /\ [][DatabaseNext]_databaseVars

-----------------------------------------------------------------------------
(* Type invariant.                                                         *)
DatabaseTypeOK ==
    /\ file \in BOOLEAN /\ table \in BOOLEAN
    /\ users \subseteq Users \X Groups
    /\ table => file
    /\ users # {} => table
    /\ pc \in [Servers -> Initialising \cup {"down", "open", "serving"}]
    /\ initialise \in [Servers -> BOOLEAN]
    /\ members \subseteq Users \X Groups
    /\ drops \in 0..2 /\ interrupted \in BOOLEAN
    /\ verdict \in [user : Users, path : Paths, count : 0..2] \cup {NoVerdict}

(* No row that was entered is ever lost, through starts, failures and      *)
(* restarts of any number of processes, unless the table was dropped twice,  *)
(* which takes two processes that both looked for the file before there    *)
(* was one.                                                                *)
MembersKept == drops <= 1 => users = members

(* A server that serves has the table its answers come from, unless an     *)
(* initialisation is still under way, or was cut short (it is never done   *)
(* again, as the file exists then).  That two of them overlap is no harm   *)
(* to the table, only to its rows.                                         *)
TablesWhenServing ==
    \A s \in Servers :
        pc[s] = "serving" /\ ~table =>
            \/ interrupted
            \/ \E t \in Servers : pc[t] \in Initialising

(* The numbers a path says, one at the most, however long.                 *)
Says == [path \in Paths |->
            {Numeral(text) : text \in
                {t \in {ComponentAt(i, path) : i \in ComponentStarts(Component, path)} :
                    path[1] = "/" /\ AllDigits(t)}}]

(* A user is admitted to a page exactly if the operator entered the user   *)
(* for the very group whose number the path says, or for the group that    *)
(* sees everything and the path says a group at all: no number too large   *)
(* for an int turns into another group's.                                  *)
VerdictsFollowMembers ==
    verdict # NoVerdict /\ drops <= 1 =>
        (verdict.count > 0 <=>
            \E group \in Says[verdict.path] \cap 1..IntMax :
                \/ <<verdict.user, group>> \in members
                \/ <<verdict.user, Everywhere>> \in members)
=============================================================================
