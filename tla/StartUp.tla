------------------------------- MODULE StartUp -------------------------------
(***************************************************************************)
(* What happens before a server answers its first request (main.go:        *)
(* openDB, migrate, ensureColumn, seed, ensureDemoUsers, ensureDemoChats)  *)
(* when several servers start on one database, statements fail, processes  *)
(* are killed, and the demonstration data tool (cmd/prodseed) is run.      *)
(*                                                                         *)
(* Every error of openDB ends the process; the platform starts it again    *)
(* (docker-compose.yml, railway.json).  migrate runs statement by          *)
(* statement without a transaction; seed and the tool each run in one.     *)
(* SQLite lets one transaction write at a time and rolls identifiers back  *)
(* with it; the sequences of Postgres are never rolled back.               *)
(***************************************************************************)
EXTENDS Integers, Sequences, FiniteSets

CONSTANTS Servers,      \* server processes
          Dialects,     \* DB_DRIVER: "sqlite", "postgres" or both
          SeedRows,     \* masters, and orders, inserted by seed (3 in the code)
          MaxFaults,    \* bound: failed statements and killed processes
          MaxChats,     \* bound: chats opened by requests
          MaxId         \* bound: ids of masters and orders that are drawn

ASSUME StartUpAssumption ==
    /\ Dialects \subseteq {"sqlite", "postgres"}
    /\ SeedRows \in Nat \ {0}
    /\ {MaxFaults, MaxChats, MaxId} \subseteq Nat

VARIABLES dialect,      \* the driver of this deployment
          tables,       \* tables that exist
          columns,      \* those of the columns added over time that exist
          categories,   \* times the categories were inserted
          masters,      \* ids of masters
          orders,       \* ids of orders
          chats,        \* ids of chats
          messages,     \* chat 1 has messages
          demoMaster,   \* a listing with the seeded master's name exists
          users,        \* demo profiles that have a users row, by role
          next,         \* the next id of each sequence
          pc,           \* where each server is
          at,           \* the statement of the loop it is in
          mine,         \* rows of its open seed transaction
          tool,         \* where cmd/prodseed is
          faults,       \* counter for the bound
          clashes       \* history: chat inserts refused for a taken id

schema == <<dialect, tables, columns>>
data == <<categories, masters, orders, chats, messages, demoMaster, users>>
history == <<faults, clashes>>
vars == <<schema, data, next, pc, at, mine, tool, history>>

Roles == <<"customer", "master">>
Rows == 1..SeedRows
NoRows == [masters |-> {}, orders |-> {}]
-----------------------------------------------------------------------------
(* The schema.                                                             *)

\* CREATE TABLE statements in the order of sqliteSchema: users comes before
\* profiles, which it references; SQLite does not mind.
SqliteTables ==
    <<"users", "profiles", "categories", "services", "masters", "orders",
      "order_photos", "responses", "chats", "messages", "transactions",
      "idempotency_keys", "verification_documents", "master_reviews">>

PostgresTablesUnordered == SqliteTables
PostgresTables ==
    <<"profiles", "users", "categories", "services", "masters", "orders",
      "order_photos", "responses", "chats", "messages", "transactions",
      "idempotency_keys", "verification_documents", "master_reviews">>

\* REFERENCES clauses.
References(t) ==
    CASE t \in {"users", "masters", "transactions", "verification_documents"} -> {"profiles"}
      [] t = "services" -> {"categories"}
      [] t = "orders" -> {"profiles", "masters"}
      [] t \in {"responses", "chats"} -> {"orders", "masters"}
      [] t = "order_photos" -> {"orders"}
      [] t = "master_reviews" -> {"masters"}
      [] OTHER -> {}

\* Columns that queries use and that tables of older databases lack.
LaterColumns ==
    {<<"orders", "selected_master_id">>, <<"orders", "preferred_master_id">>,
     <<"orders", "customer_id">>, <<"profiles", "district">>,
     <<"profiles", "avatar_url">>, <<"masters", "profile_id">>,
     <<"transactions", "profile_id">>, <<"order_photos", "blurhash">>}

\* The ensureColumn calls; Postgres has none for profiles.
EnsuredColumnsWithoutLink(d) ==
    << <<"orders", "selected_master_id">>, <<"orders", "customer_id">> >>
EnsuredColumns(d) ==
    << <<"orders", "selected_master_id">>, <<"orders", "preferred_master_id">>,
       <<"orders", "customer_id">> >>
    \o (IF d = "sqlite" THEN << <<"profiles", "district">>, <<"profiles", "avatar_url">> >>
                        ELSE <<>>)
    \o << <<"masters", "profile_id">>, <<"transactions", "profile_id">>,
          <<"order_photos", "blurhash">> >>

\* The tables the tool creates if it finds none, and the later columns its
\* statements leave out.
ToolTables ==
    {"profiles", "users", "categories", "masters", "orders", "responses", "chats",
     "messages", "transactions", "idempotency_keys", "verification_documents",
     "master_reviews"}
ToolColumns ==
    {c \in LaterColumns : c[1] \in ToolTables}
        \ {<<"orders", "customer_id">>, <<"masters", "profile_id">>,
           <<"transactions", "profile_id">>}

Schema(d) == IF d = "sqlite" THEN SqliteTables ELSE PostgresTables
AllTables(d) == {Schema(d)[i] : i \in DOMAIN Schema(d)}
Ensured(d) == {EnsuredColumns(d)[i] : i \in DOMAIN EnsuredColumns(d)}
-----------------------------------------------------------------------------
(* Transactions.                                                           *)

Seeding == {"masters", "link", "orders", "responses", "chat", "commit"}

\* The tool's transaction hides the tables it creates, and TRUNCATE locks
\* every table until it ends.
ToolOpen == tool \in {"truncate", "load"}
Unlocked == tool # "load"

MayWrite(s) ==
    /\ Unlocked
    /\ dialect = "sqlite" => \A o \in Servers \ {s} : pc[o] \notin Seeding

Sees(s, kind) == mine[s][kind] \cup (IF kind = "masters" THEN masters ELSE orders)

Goto(s, where) == pc' = [pc EXCEPT ![s] = where] /\ at' = [at EXCEPT ![s] = 1]

\* log.Fatal: the deferred rollback, and with SQLite the ids go back as well.
Rollback(s) ==
    next' = IF dialect = "sqlite"
            THEN [next EXCEPT !.masters = @ - Cardinality(mine[s].masters),
                              !.orders = @ - Cardinality(mine[s].orders)]
            ELSE next

Exit(s) ==
    /\ Rollback(s)
    /\ mine' = [mine EXCEPT ![s] = NoRows]
    /\ Goto(s, "down")
    /\ UNCHANGED <<schema, data, tool, clashes>>
-----------------------------------------------------------------------------
\* An empty database, or one an older server filled: it lacks the later
\* columns and the tables that came last.
Init ==
    /\ dialect \in Dialects
    /\ \/ /\ tables = {} /\ columns = {}
          /\ categories = 0 /\ masters = {} /\ orders = {}
          /\ messages = FALSE /\ demoMaster = FALSE
          /\ next = [masters |-> 1, orders |-> 1, chats |-> 1]
       \/ /\ tables = AllTables(dialect) \ {"users", "chats", "idempotency_keys"}
          /\ columns = LaterColumns \ Ensured(dialect)
          /\ categories = 1 /\ masters = Rows /\ orders = Rows
          /\ messages = TRUE /\ demoMaster = TRUE
          /\ next = [masters |-> SeedRows + 1, orders |-> SeedRows + 1, chats |-> 1]
    /\ chats = {}
    /\ users = {}
    /\ pc = [s \in Servers |-> "down"]
    /\ at = [s \in Servers |-> 1]
    /\ mine = [s \in Servers |-> NoRows]
    /\ tool = "idle"
    /\ faults = 0
    /\ clashes = 0

\* The process starts, or is started again; it connects (openDB).
Start(s) ==
    /\ pc[s] = "down"
    /\ Goto(s, "tables")
    /\ UNCHANGED <<schema, data, next, mine, tool, history>>

\* CREATE TABLE IF NOT EXISTS, one statement at a time.  On Postgres a table
\* cannot be created before those it references.
CreateTable(s) ==
    /\ pc[s] = "tables"
    /\ at[s] <= Len(Schema(dialect))
    /\ LET t == Schema(dialect)[at[s]] IN
       \/ /\ t \in tables
          /\ at' = [at EXCEPT ![s] = @ + 1]
          /\ UNCHANGED <<schema, data, next, pc, mine, tool, history>>
       \/ /\ t \notin tables
          /\ MayWrite(s)
          /\ ~(ToolOpen /\ t \in ToolTables)
          /\ dialect = "sqlite" \/ References(t) \subseteq tables
          /\ tables' = tables \cup {t}
          /\ columns' = columns \cup {c \in LaterColumns : c[1] = t}
          /\ at' = [at EXCEPT ![s] = @ + 1]
          /\ UNCHANGED <<dialect, data, next, pc, mine, tool, history>>

TablesDone(s) ==
    /\ pc[s] = "tables"
    /\ at[s] > Len(Schema(dialect))
    /\ Goto(s, "columns")
    /\ UNCHANGED <<schema, data, next, mine, tool, history>>

\* ensureColumn asks whether the column exists ...
CheckColumn(s) ==
    /\ pc[s] = "columns"
    /\ at[s] <= Len(EnsuredColumns(dialect))
    /\ IF EnsuredColumns(dialect)[at[s]] \in columns
       THEN at' = [at EXCEPT ![s] = @ + 1] /\ UNCHANGED pc
       ELSE pc' = [pc EXCEPT ![s] = "alter"] /\ UNCHANGED at
    /\ UNCHANGED <<schema, data, next, mine, tool, history>>

\* ... and adds it in another statement, which fails if it does by now.
AddColumn(s) ==
    /\ pc[s] = "alter"
    /\ LET c == EnsuredColumns(dialect)[at[s]] IN
       \/ /\ c \notin columns
          /\ MayWrite(s)
          /\ columns' = columns \cup {c}
          /\ at' = [at EXCEPT ![s] = @ + 1]
          /\ pc' = [pc EXCEPT ![s] = "columns"]
          /\ UNCHANGED <<dialect, tables, data, next, mine, tool, history>>
       \/ /\ c \in columns
          /\ Exit(s) /\ UNCHANGED faults

\* The unique index on masters(profile_id).
ColumnsDone(s) ==
    /\ pc[s] = "columns"
    /\ at[s] > Len(EnsuredColumns(dialect))
    /\ MayWrite(s)
    /\ Goto(s, "count")
    /\ UNCHANGED <<schema, data, next, mine, tool, history>>
-----------------------------------------------------------------------------
(* seed.  The rows of its transaction are its own until it commits.        *)

\* The count is read before the transaction begins; its first INSERTs are the
\* profiles, the categories and their services.
CountCategories(s) ==
    /\ pc[s] = "count"
    /\ Unlocked
    /\ Goto(s, IF categories > 0 THEN "users" ELSE "begin")
    /\ UNCHANGED <<schema, data, next, mine, tool, history>>

BeginSeed(s) ==
    /\ pc[s] = "begin"
    /\ MayWrite(s)
    /\ Goto(s, "masters")
    /\ UNCHANGED <<schema, data, next, mine, tool, history>>

\* One INSERT INTO masters, or orders, each drawing its id.
InsertRow(s, kind, after) ==
    /\ pc[s] = kind
    /\ next[kind] <= MaxId
    /\ next' = [next EXCEPT ![kind] = @ + 1]
    /\ mine' = [mine EXCEPT ![s][kind] = @ \cup {next[kind]}]
    /\ IF at[s] < SeedRows
       THEN at' = [at EXCEPT ![s] = @ + 1] /\ UNCHANGED pc
       ELSE Goto(s, after)
    /\ UNCHANGED <<schema, data, tool, history>>

\* UPDATE masters SET profile_id ... WHERE name: with a second listing of that
\* name it meets the unique index.
LinkRefused(s) == demoMaster

LinkMaster(s) ==
    /\ pc[s] = "link"
    /\ \/ /\ ~LinkRefused(s)
          /\ Goto(s, "orders")
          /\ UNCHANGED <<schema, data, next, mine, tool, history>>
       \/ /\ LinkRefused(s)
          /\ Exit(s) /\ UNCHANGED faults

\* Responses, and later reviews, name order 1 and masters 1 to 3.
ResponsesRefused(s) == ~(1 \in Sees(s, "orders") /\ Rows \subseteq Sees(s, "masters"))

InsertResponses(s) ==
    /\ pc[s] = "responses"
    /\ \/ /\ ~ResponsesRefused(s)
          /\ Goto(s, "chat")
          /\ UNCHANGED <<schema, data, next, mine, tool, history>>
       \/ /\ ResponsesRefused(s)
          /\ Exit(s) /\ UNCHANGED faults

\* The chat has the explicit id 1.
SeededChatsTwo == {1, 2}
SeededChats == {1}

ChatRefusedNever(s) == FALSE
ChatRefused(s) == SeededChats \cap chats # {}

InsertDemoChat(s) ==
    /\ pc[s] = "chat"
    /\ \/ /\ ~ChatRefused(s)
          /\ Goto(s, "commit")
          /\ UNCHANGED <<schema, data, next, mine, tool, history>>
       \/ /\ ChatRefused(s)
          /\ Exit(s) /\ UNCHANGED faults

\* SQLite's counter follows an explicit id, a Postgres sequence does not.
CommitSeed(s) ==
    /\ pc[s] = "commit"
    /\ categories' = categories + 1
    /\ masters' = masters \cup mine[s].masters
    /\ orders' = orders \cup mine[s].orders
    /\ chats' = chats \cup SeededChats
    /\ next' = IF dialect = "sqlite" THEN [next EXCEPT !.chats = 2] ELSE next
    /\ messages' = TRUE
    /\ demoMaster' = TRUE
    /\ mine' = [mine EXCEPT ![s] = NoRows]
    /\ Goto(s, "users")
    /\ UNCHANGED <<schema, users, tool, history>>
-----------------------------------------------------------------------------
(* ensureDemoUsers and ensureDemoChats.                                    *)

\* The upserts of the profiles read first; they run at every start.
UpsertUser(s) ==
    /\ pc[s] = "users"
    /\ MayWrite(s)
    /\ users' = users \cup {Roles[at[s]]}
    /\ IF at[s] < Len(Roles)
       THEN at' = [at EXCEPT ![s] = @ + 1] /\ UNCHANGED pc
       ELSE Goto(s, "chats")
    /\ UNCHANGED <<schema, categories, masters, orders, chats, messages, demoMaster,
                   next, mine, tool, history>>

DemoChatMissingNever == FALSE
DemoChatMissing == 1 \notin chats /\ messages

CheckDemoChat(s) ==
    /\ pc[s] = "chats"
    /\ Unlocked
    /\ Goto(s, IF DemoChatMissing THEN "chat1" ELSE "serving")
    /\ UNCHANGED <<schema, data, next, mine, tool, history>>

\* INSERT ... ON CONFLICT(id) DO NOTHING.
RestoreDemoChat(s) ==
    /\ pc[s] = "chat1"
    /\ MayWrite(s)
    /\ chats' = chats \cup {1}
    /\ next' = IF dialect = "sqlite" /\ next.chats = 1 THEN [next EXCEPT !.chats = 2] ELSE next
    /\ Goto(s, "serving")
    /\ UNCHANGED <<schema, categories, masters, orders, messages, demoMaster, users, mine,
                   tool, history>>
-----------------------------------------------------------------------------
\* The first thing requests do with ids: ensureChat inserts a chat.  A taken
\* id refuses it, and the sequence has moved on all the same.
OpenChat(s) ==
    /\ pc[s] = "serving"
    /\ MayWrite(s)
    /\ Cardinality(chats) + clashes < MaxChats
    /\ \/ /\ next.chats \notin chats
          /\ chats' = chats \cup {next.chats}
          /\ next' = [next EXCEPT !.chats = @ + 1]
          /\ UNCHANGED clashes
       \/ /\ next.chats \in chats
          /\ clashes' = clashes + 1
          /\ next' = [next EXCEPT !.chats = @ + 1]
          /\ UNCHANGED chats
    /\ UNCHANGED <<schema, categories, masters, orders, messages, demoMaster, users, pc, at,
                   mine, tool, faults>>

\* A statement of the start fails, the process is killed, or a serving one
\* is told to stop.
Stop(s) ==
    /\ pc[s] # "down"
    /\ faults < MaxFaults
    /\ faults' = faults + 1
    /\ Exit(s)
-----------------------------------------------------------------------------
(* cmd/prodseed -apply, Postgres only: one transaction.                    *)

ToolSchema ==
    /\ dialect = "postgres"
    /\ tool = "idle"
    /\ tool' = "truncate"
    /\ UNCHANGED <<schema, data, next, pc, at, mine, history>>

\* TRUNCATE ... RESTART IDENTITY CASCADE waits for open transactions.
ToolTruncate ==
    /\ tool = "truncate"
    /\ \A s \in Servers : pc[s] \notin Seeding
    /\ tool' = "load"
    /\ UNCHANGED <<schema, data, next, pc, at, mine, history>>

\* Rows of its own, chats from the sequence, a master that is not linked.
ToolCommit ==
    /\ tool = "load"
    /\ tool' = "done"
    /\ tables' = tables \cup ToolTables
    /\ columns' = columns \cup {c \in ToolColumns : c[1] \notin tables}
    /\ categories' = 1
    /\ masters' = Rows
    /\ orders' = Rows
    /\ chats' = {1}
    /\ next' = [masters |-> SeedRows + 1, orders |-> SeedRows + 1, chats |-> 2]
    /\ messages' = TRUE
    /\ demoMaster' = FALSE
    /\ users' = {Roles[i] : i \in DOMAIN Roles}
    /\ UNCHANGED <<dialect, pc, at, mine, history>>

\* A statement fails, or its 45 seconds are over.
ToolFails ==
    /\ ToolOpen
    /\ faults < MaxFaults
    /\ faults' = faults + 1
    /\ tool' = "done"
    /\ UNCHANGED <<schema, data, next, pc, at, mine, clashes>>
-----------------------------------------------------------------------------
Tool == ToolSchema \/ ToolTruncate \/ ToolCommit \/ ToolFails

Step(s) ==
    \/ CreateTable(s) \/ TablesDone(s) \/ CheckColumn(s) \/ AddColumn(s) \/ ColumnsDone(s)
    \/ CountCategories(s) \/ BeginSeed(s) \/ InsertRow(s, "masters", "link") \/ LinkMaster(s)
    \/ InsertRow(s, "orders", "responses") \/ InsertResponses(s) \/ InsertDemoChat(s)
    \/ CommitSeed(s) \/ UpsertUser(s) \/ CheckDemoChat(s) \/ RestoreDemoChat(s)

Next == Tool \/ \E s \in Servers : Start(s) \/ Step(s) \/ OpenChat(s) \/ Stop(s)

Spec == Init /\ [][Next]_vars

\* The platform starts a server that has exited, a started one runs on, and
\* the tool ends within its 45 seconds.
FairSpec ==
    /\ Spec
    /\ \A s \in Servers : WF_vars(Start(s)) /\ SF_vars(Step(s))
    /\ WF_vars(ToolTruncate \/ ToolCommit)
-----------------------------------------------------------------------------
(* Properties.                                                             *)

Serving(s) == pc[s] = "serving"

\* seed reads the count of categories outside its transaction, so several
\* servers, and the tool, may all find an empty database; the demonstration
\* data still gets in once.
SeededOnce == categories <= 1

\* A server that answers requests has every table and every column that its
\* queries name, whoever created the tables: migrate, an older server, or the
\* tool, whose tables have fewer columns.
SchemaReady ==
    (\E s \in Servers : Serving(s)) => /\ tables = AllTables(dialect)
                                       /\ columns = LaterColumns

\* It also has the demonstration data whole and the accounts that open it,
\* whatever starts were cut short before ("The two seeded demo accounts
\* already have users rows", auth.go).
DataReady ==
    (\E s \in Servers : Serving(s)) =>
        /\ categories > 0
        /\ Rows \subseteq masters /\ 1 \in orders
        /\ 1 \in chats
        /\ users = {Roles[i] : i \in DOMAIN Roles}

\* Chat 1 is inserted with its id.  On Postgres the sequence does not know,
\* and the first selection of a master that opens a chat is refused; never a
\* second one, and none on SQLite.
ChatIdsClashOnce == clashes <= IF dialect = "postgres" THEN 1 ELSE 0

\* Ids that no seed can get any more: order 1, or one of the first masters,
\* was drawn on Postgres by a seed that then failed.  The seeded responses name
\* them, so every later seed fails as well.
UsedUp(kind, i) == i < next[kind] /\ \A s \in Servers : i \notin Sees(s, kind)

SeedImpossible ==
    /\ dialect = "postgres" /\ categories = 0
    /\ UsedUp("orders", 1) \/ \E i \in Rows : UsedUp("masters", i)

\* Started often enough, some server gets to serve, unless a failed seed has
\* made every later one impossible, which happens on Postgres only.
ServesUnlessSpoiled == <>(SeedImpossible \/ \E s \in Servers : Serving(s))

\* All of this implements the promise of Deployment: one seed at most, none
\* after the tool's rows or once it cannot succeed, and nobody serves before.
D == INSTANCE Deployment WITH copies <- categories,
                              loaded <- categories > 0 /\ ~demoMaster,
                              spoilt <- SeedImpossible,
                              serving <- {s \in Servers : Serving(s)}

ImplementsDeployment == D!DeploymentSpec
=============================================================================
