---------------------------- MODULE StartUpProofs ----------------------------
(***************************************************************************)
(* What a server may rely on once it serves, for any number of servers     *)
(* that start, fail and are killed, beside the demonstration data tool:    *)
(* the schema is complete, the demonstration data is there once and whole, *)
(* chat ids clash once at most, and a seed that has used up an id it needs *)
(* is lost for good.                                                       *)
(***************************************************************************)
EXTENDS StartUp, FiniteSetTheorems, TLAPS

-----------------------------------------------------------------------------
(* The inductive invariant, part by part.                                  *)

\* Where a server can be.
Positions ==
    {"down", "tables", "columns", "alter", "count", "begin", "users", "chats", "chat1",
     "serving"} \cup Seeding

\* The demonstration accounts, by role.
Accounts == {"customer", "master"}

\* Past migrate.
Prepared == Positions \ {"down", "tables", "columns", "alter"}

\* Types of what every step touches.  The tool knows no other driver.
ServersOK ==
    /\ dialect \in {"sqlite", "postgres"}
    /\ pc \in [Servers -> Positions]
    /\ at \in [Servers -> Nat \ {0}]
    /\ tool \in {"idle", "truncate", "load", "done"}
    /\ tool # "idle" => dialect = "postgres"

\* How far a server has got with the schema.
Migrated(s) ==
    /\ pc[s] = "tables" =>
          \A i \in 1..14 : i < at[s] => Schema(dialect)[i] \in tables
    /\ pc[s] \notin {"down", "tables"} => tables = AllTables(dialect)
    /\ pc[s] \in {"columns", "alter"} =>
          \A i \in DOMAIN EnsuredColumns(dialect) :
             i < at[s] => EnsuredColumns(dialect)[i] \in columns
    /\ pc[s] = "alter" => at[s] \in DOMAIN EnsuredColumns(dialect)
    /\ pc[s] \in Prepared => Ensured(dialect) \subseteq columns

\* The schema only grows, and the columns that no ensureColumn adds come with
\* their tables.
SchemaInv ==
    /\ tables \subseteq AllTables(dialect)
    /\ columns \subseteq LaterColumns
    /\ \A c \in LaterColumns \ Ensured(dialect) : c[1] \in tables => c \in columns
    /\ \A s \in Servers : Migrated(s)

\* Rows of open seeds, and the sequences.
RowsOK ==
    /\ mine \in [Servers -> [masters : SUBSET Int, orders : SUBSET Int]]
    /\ \A s \in Servers : IsFiniteSet(mine[s].masters) /\ IsFiniteSet(mine[s].orders)
    /\ next \in [masters : Int, orders : Int, chats : Nat]

\* The demonstration data is not there at all, or it is there whole.
AllOrNothing ==
    /\ categories \in {0, 1}
    /\ categories = 0 => masters = {} /\ orders = {} /\ chats = {}
    /\ categories = 1 => Rows \subseteq masters /\ 1 \in orders

\* Past seed.
Seeded == {"users", "chats", "chat1", "serving"}

\* What is true of a server as long as its seed can still commit.
Seeder(s) ==
    /\ pc[s] \notin Seeding => mine[s] = NoRows
    /\ pc[s] \in {"chat", "commit"} => 1 \in Sees(s, "orders") /\ Rows \subseteq Sees(s, "masters")
    /\ pc[s] = "commit" => categories = 0
    /\ pc[s] \in Seeded => categories = 1
    /\ dialect = "postgres" => \A i \in mine[s].orders : i < next.orders
    /\ categories = 1 /\ 1 \notin chats => pc[s] \notin Seeding \cup {"begin"}
    /\ tool = "load" => pc[s] \notin Seeding

\* Two seeds at a time: never on SQLite, never with the same order on Postgres.
Apart(s, o) ==
    /\ dialect = "sqlite" => pc[s] \notin Seeding \/ pc[o] \notin Seeding
    /\ dialect = "postgres" => mine[s].orders \cap mine[o].orders = {}

\* Servers that seed at the same time cannot both commit.
SeedInv ==
    /\ AllOrNothing
    /\ \A s \in Servers : Seeder(s)
    /\ \A s, o \in Servers : s # o => Apart(s, o)

\* What a server past seed has put in order.
Restored(s) ==
    /\ pc[s] = "users" => at[s] \in 1..2 /\ (at[s] = 2 => "customer" \in users)
    /\ pc[s] \in Seeded \ {"users"} => Accounts \subseteq users
    /\ pc[s] = "serving" => 1 \in chats

\* What a restart finds of the demonstration data.
ReadyInv ==
    /\ users \subseteq Accounts
    /\ categories = 1 => messages = TRUE
    /\ \A s \in Servers : Restored(s)

\* The sequence of chats is ahead of every id but the explicit 1 on Postgres,
\* and a refused insert has taken it past that one.
ChatInv ==
    /\ chats \subseteq Nat
    /\ next.chats >= 1
    /\ \A c \in chats : c < next.chats \/ (dialect = "postgres" /\ c = 1)
    /\ \/ clashes = 0
       \/ clashes = 1 /\ dialect = "postgres" /\ next.chats >= 2

IInv == ServersOK /\ RowsOK /\ SchemaInv /\ SeedInv /\ ReadyInv /\ ChatInv
-----------------------------------------------------------------------------
(* The lists of tables and columns.                                        *)

\* The list of CREATE TABLE statements names every table.
LEMMA SchemaLists ==
    ASSUME NEW d \in {"sqlite", "postgres"}
    PROVE  /\ Len(Schema(d)) = 14 /\ DOMAIN Schema(d) = 1..14
           /\ \A i \in 1..14 : Schema(d)[i] \in AllTables(d)
           /\ \A t \in AllTables(d) : \E i \in 1..14 : t = Schema(d)[i]
<1>1. Len(Schema(d)) = 14 /\ DOMAIN Schema(d) = 1..14
  BY DEF Schema, SqliteTables, PostgresTables
<1> QED
  BY <1>1 DEF AllTables

\* The ensureColumn calls are about later columns.
LEMMA EnsuredLists ==
    ASSUME NEW d \in {"sqlite", "postgres"}
    PROVE  /\ EnsuredColumns(d) \in Seq(LaterColumns)
           /\ Ensured(d) \subseteq LaterColumns
<1> DEFINE always == << <<"orders", "selected_master_id">>, <<"orders", "preferred_master_id">>,
                        <<"orders", "customer_id">> >>
           sqlite == << <<"profiles", "district">>, <<"profiles", "avatar_url">> >>
           last == << <<"masters", "profile_id">>, <<"transactions", "profile_id">>,
                      <<"order_photos", "blurhash">> >>
<1>1. always \in Seq(LaterColumns)
  BY DEF LaterColumns
<1>2. sqlite \in Seq(LaterColumns)
  BY DEF LaterColumns
<1>3. last \in Seq(LaterColumns)
  BY DEF LaterColumns
<1>4. (IF d = "sqlite" THEN sqlite ELSE <<>>) \in Seq(LaterColumns)
  BY <1>2
<1>5. EnsuredColumns(d) = always \o (IF d = "sqlite" THEN sqlite ELSE <<>>) \o last
  BY DEF EnsuredColumns
<1> HIDE DEF always, sqlite, last
<1>6. EnsuredColumns(d) \in Seq(LaterColumns)
  BY <1>1, <1>3, <1>4, <1>5
<1> QED
  BY <1>6 DEF Ensured

\* Both drivers have the same tables.
TableNames ==
    {"profiles", "users", "categories", "services", "masters", "orders", "order_photos",
     "responses", "chats", "messages", "transactions", "idempotency_keys",
     "verification_documents", "master_reviews"}

LEMMA SameTables ==
    ASSUME NEW d \in {"sqlite", "postgres"}
    PROVE  AllTables(d) = TableNames
<1>1. ASSUME NEW list, list = SqliteTables \/ list = PostgresTables
      PROVE  {list[i] : i \in DOMAIN list} = TableNames
  <2>1. DOMAIN list = 1..14
    BY <1>1 DEF SqliteTables, PostgresTables
  <2>2. \A i \in 1..14 : list[i] \in TableNames
    BY <1>1 DEF SqliteTables, PostgresTables, TableNames
  <2>3. \A t \in TableNames : \E i \in 1..14 : t = list[i]
    BY <1>1 DEF SqliteTables, PostgresTables, TableNames
  <2> QED
    BY <2>1, <2>2, <2>3
<1> QED
  BY <1>1 DEF AllTables, Schema

\* The tables of the tool have the columns that no ensureColumn adds.
LEMMA ToolColumnsSuffice ==
    \A c \in LaterColumns \ Ensured("postgres") : c[1] \in ToolTables => c \in ToolColumns
<1>1. /\ <<"orders", "customer_id">> \in Ensured("postgres")
      /\ <<"masters", "profile_id">> \in Ensured("postgres")
      /\ <<"transactions", "profile_id">> \in Ensured("postgres")
  BY DEF Ensured, EnsuredColumns
<1> QED
  BY <1>1 DEF ToolColumns

-----------------------------------------------------------------------------
(* Types.                                                                  *)

\* The types hold at the start ...
LEMMA InitServersOK == Init => ServersOK
BY StartUpAssumption DEF Init, ServersOK, Positions

\* A step of a server moves that server and no other.
LEMMA OneMoves ==
    ASSUME ServersOK, NEW s \in Servers, Start(s) \/ Step(s) \/ OpenChat(s) \/ Stop(s)
    PROVE  /\ pc' = [pc EXCEPT ![s] = pc'[s]] /\ pc'[s] \in Positions
           /\ at' = [at EXCEPT ![s] = at'[s]] /\ at'[s] \in Nat \ {0}
           /\ UNCHANGED <<dialect, tool>>
<1> DEFINE Moves == /\ pc' = [pc EXCEPT ![s] = pc'[s]] /\ pc'[s] \in Positions
                    /\ at' = [at EXCEPT ![s] = at'[s]] /\ at'[s] \in Nat \ {0}
                    /\ UNCHANGED <<dialect, tool>>
<1> USE DEF ServersOK, schema, data, history
<1>1. ASSUME NEW where \in Positions, Goto(s, where)
      PROVE  /\ pc' = [pc EXCEPT ![s] = pc'[s]] /\ pc'[s] \in Positions
             /\ at' = [at EXCEPT ![s] = at'[s]] /\ at'[s] \in Nat \ {0}
  BY <1>1 DEF Goto
<1>2. ASSUME at' = [at EXCEPT ![s] = @ + 1], UNCHANGED pc
      PROVE  /\ pc' = [pc EXCEPT ![s] = pc'[s]] /\ pc'[s] \in Positions
             /\ at' = [at EXCEPT ![s] = at'[s]] /\ at'[s] \in Nat \ {0}
  BY <1>2
<1>3. Seeding \subseteq Positions /\ "down" \in Positions
  BY DEF Positions
<1>4. ASSUME Exit(s) PROVE Moves
  BY <1>1, <1>3, <1>4 DEF Exit
<1>5. CASE Start(s)
  BY <1>1, <1>5 DEF Start, Positions
<1>6. CASE CreateTable(s)
  BY <1>2, <1>6 DEF CreateTable
<1>7. CASE TablesDone(s)
  BY <1>1, <1>7 DEF TablesDone, Positions
<1>8. CASE CheckColumn(s)
  <2>1. CASE EnsuredColumns(dialect)[at[s]] \in columns
    BY <1>2, <1>8, <2>1 DEF CheckColumn
  <2>2. CASE EnsuredColumns(dialect)[at[s]] \notin columns
    BY <1>8, <2>2 DEF CheckColumn, Positions
  <2> QED
    BY <2>1, <2>2
<1>9. CASE AddColumn(s)
  <2>1. CASE Exit(s)
    BY <1>4, <2>1
  <2>2. CASE /\ at' = [at EXCEPT ![s] = @ + 1]
             /\ pc' = [pc EXCEPT ![s] = "columns"]
             /\ UNCHANGED <<dialect, tool>>
    BY <2>2 DEF Positions
  <2> QED
    BY <1>9, <2>1, <2>2 DEF AddColumn
<1>10. CASE ColumnsDone(s)
  BY <1>1, <1>10 DEF ColumnsDone, Positions
<1>11. CASE CountCategories(s)
  BY <1>1, <1>11 DEF CountCategories, Positions
<1>12. CASE BeginSeed(s)
  BY <1>1, <1>3, <1>12 DEF BeginSeed, Seeding
<1>13. ASSUME NEW kind, NEW after \in Positions, InsertRow(s, kind, after)
       PROVE  Moves
  BY <1>1, <1>2, <1>13 DEF InsertRow
<1>14. CASE LinkMaster(s) \/ InsertResponses(s) \/ InsertDemoChat(s)
  <2>1. CASE Exit(s)
    BY <1>4, <2>1
  <2>2. CASE /\ \E where \in {"orders", "chat", "commit"} : Goto(s, where)
             /\ UNCHANGED <<dialect, tool>>
    BY <1>1, <1>3, <2>2 DEF Seeding
  <2> QED
    BY <1>14, <2>1, <2>2 DEF LinkMaster, InsertResponses, InsertDemoChat
<1>15. CASE CommitSeed(s)
  BY <1>1, <1>15 DEF CommitSeed, Positions
<1>16. CASE UpsertUser(s)
  <2>1. "chats" \in Positions
    BY DEF Positions
  <2> QED
    BY <1>1, <1>2, <1>16, <2>1 DEF UpsertUser
<1>17. CASE CheckDemoChat(s)
  BY <1>1, <1>17 DEF CheckDemoChat, Positions
<1>18. CASE RestoreDemoChat(s)
  BY <1>1, <1>18 DEF RestoreDemoChat, Positions
<1>19. CASE OpenChat(s)
  BY <1>19 DEF OpenChat
<1>20. CASE Stop(s)
  BY <1>4, <1>20 DEF Stop
<1>21. CASE InsertRow(s, "masters", "link") \/ InsertRow(s, "orders", "responses")
  BY <1>3, <1>13, <1>21 DEF Seeding
<1> QED
  BY <1>5, <1>6, <1>7, <1>8, <1>9, <1>10, <1>11, <1>12, <1>14, <1>15, <1>16, <1>17, <1>18,
     <1>19, <1>20, <1>21 DEF Step

\* A step of the tool moves no server.
LEMMA ToolMoves ==
    ASSUME ServersOK, Tool
    PROVE  /\ UNCHANGED <<dialect, pc, at, mine>>
           /\ dialect = "postgres"
           /\ tool' \in {"truncate", "load", "done"}
BY DEF ServersOK, Tool, ToolSchema, ToolTruncate, ToolCommit, ToolFails, ToolOpen, schema

\* ... and after every step.
LEMMA NextServersOK == ServersOK /\ [Next]_vars => ServersOK'
<1> SUFFICES ASSUME ServersOK, [Next]_vars
             PROVE  ServersOK'
  OBVIOUS
<1>1. CASE Tool
  BY <1>1, ToolMoves DEF ServersOK
<1>2. ASSUME NEW s \in Servers, Start(s) \/ Step(s) \/ OpenChat(s) \/ Stop(s)
      PROVE  ServersOK'
  BY <1>2, OneMoves DEF ServersOK
<1>3. CASE UNCHANGED vars
  BY <1>3 DEF vars, schema, ServersOK
<1> QED
  BY <1>1, <1>2, <1>3 DEF Next
-----------------------------------------------------------------------------
(* The schema.                                                             *)

\* An empty schema and that of an older server have the columns nobody adds.
LEMMA InitSchemaInv == Init => SchemaInv
<1> SUFFICES ASSUME Init
             PROVE  SchemaInv
  OBVIOUS
<1>1. \A s \in Servers : pc[s] = "down"
  BY DEF Init
<1>2. \A s \in Servers : Migrated(s)
  BY <1>1 DEF Migrated, Prepared
<1> QED
  BY <1>2 DEF Init, SchemaInv

\* What one server has done, others only add to.
LEMMA OthersAdd ==
    ASSUME NEW o \in Servers, Migrated(o), UNCHANGED dialect,
           pc'[o] = pc[o], at'[o] = at[o],
           tables \subseteq tables', tables' \subseteq AllTables(dialect),
           columns \subseteq columns'
    PROVE  Migrated(o)'
BY DEF Migrated

\* Steps that leave the schema alone and do not take a server through migrate.
LEMMA ElsewhereSchemaInv ==
    ASSUME ServersOK, SchemaInv, NEW s \in Servers,
           Start(s) \/ Step(s) \/ OpenChat(s) \/ Stop(s), UNCHANGED schema,
           \/ pc'[s] = "down"
           \/ pc'[s] = "tables" /\ at'[s] = 1
           \/ pc[s] \in Prepared /\ pc'[s] \in Prepared
    PROVE  SchemaInv'
<1>1. \A o \in Servers \ {s} : Migrated(o)'
  BY OneMoves, OthersAdd DEF SchemaInv, ServersOK, schema
<1>2. Migrated(s)'
  BY DEF Migrated, SchemaInv, ServersOK, schema, Prepared
<1> QED
  BY <1>1, <1>2 DEF SchemaInv, schema

\* Every step takes the schema further and no server past what is there.
LEMMA NextSchemaInv == ServersOK /\ SchemaInv /\ [Next]_vars => SchemaInv'
<1> SUFFICES ASSUME ServersOK, SchemaInv, [Next]_vars
             PROVE  SchemaInv'
  OBVIOUS
<1> USE DEF schema, data, history
<1>1. ASSUME NEW s \in Servers, CreateTable(s)
      PROVE  SchemaInv'
  <2>0. Len(Schema(dialect)) = 14
    BY SchemaLists DEF ServersOK
  <2>1. at[s] \in 1..14
    BY <1>1, <2>0 DEF CreateTable, ServersOK
  <2> DEFINE t == Schema(dialect)[at[s]]
  <2>2. /\ tables' = tables \cup {t}
        /\ \/ columns' = columns \cup {c \in LaterColumns : c[1] = t}
           \/ t \in tables /\ columns' = columns
        /\ at' = [at EXCEPT ![s] = @ + 1]
        /\ UNCHANGED <<dialect, pc>>
    BY <1>1 DEF CreateTable
  <2>3. t \in AllTables(dialect)
    BY <2>1, SchemaLists DEF ServersOK
  <2> HIDE DEF t
  <2>4. /\ tables' \subseteq AllTables(dialect)
        /\ columns' \subseteq LaterColumns
        /\ \A c \in LaterColumns \ Ensured(dialect) : c[1] \in tables' => c \in columns'
    BY <2>2, <2>3 DEF SchemaInv
  <2>5. \A o \in Servers \ {s} : Migrated(o)'
    BY <2>2, <2>4, OthersAdd DEF SchemaInv, ServersOK
  <2>6. \A i \in 1..14 : i < at[s] + 1 => Schema(dialect)[i] \in tables'
    BY <1>1, <2>1, <2>2 DEF SchemaInv, Migrated, CreateTable, t
  <2>7. Migrated(s)'
    BY <1>1, <2>2, <2>6 DEF Migrated, CreateTable, ServersOK, Prepared
  <2> QED
    BY <2>2, <2>4, <2>5, <2>7 DEF SchemaInv
<1>2. ASSUME NEW s \in Servers, TablesDone(s)
      PROVE  SchemaInv'
  <2>1. tables = AllTables(dialect)
    <3>1. \A i \in 1..14 : Schema(dialect)[i] \in tables
      <4>1. Len(Schema(dialect)) = 14
        BY SchemaLists DEF ServersOK
      <4> QED
        BY <1>2, <4>1 DEF TablesDone, SchemaInv, Migrated, ServersOK
    <3> QED
      BY <3>1, SchemaLists DEF ServersOK, SchemaInv
  <2>2. /\ pc' = [pc EXCEPT ![s] = "columns"] /\ at' = [at EXCEPT ![s] = 1]
        /\ UNCHANGED <<dialect, tables, columns>>
    BY <1>2 DEF TablesDone, Goto
  <2>3. \A o \in Servers \ {s} : Migrated(o)'
    BY <2>2, OthersAdd DEF SchemaInv, ServersOK
  <2>4. DOMAIN EnsuredColumns(dialect) \subseteq Nat \ {0}
    BY EnsuredLists DEF ServersOK
  <2>5. Migrated(s)'
    BY <2>1, <2>2, <2>4 DEF Migrated, ServersOK, Prepared
  <2> QED
    BY <2>2, <2>3, <2>5 DEF SchemaInv
<1>3. ASSUME NEW s \in Servers, CheckColumn(s)
      PROVE  SchemaInv'
  <2>1. at[s] \in DOMAIN EnsuredColumns(dialect)
    BY <1>3, EnsuredLists DEF CheckColumn, ServersOK
  <2>2. UNCHANGED <<dialect, tables, columns>>
    BY <1>3 DEF CheckColumn
  <2>3. \A o \in Servers \ {s} : Migrated(o)'
    BY <1>3, <2>2, OneMoves, OthersAdd DEF SchemaInv, ServersOK, Step
  <2>4. DOMAIN EnsuredColumns(dialect) \subseteq Nat
    BY EnsuredLists DEF ServersOK
  <2>5. CASE EnsuredColumns(dialect)[at[s]] \in columns
    <3>1. pc'[s] = "columns" /\ at'[s] = at[s] + 1
      BY <1>3, <2>5 DEF CheckColumn, ServersOK
    <3>2. Migrated(s)'
      BY <1>3, <2>2, <2>4, <2>5, <3>1 DEF Migrated, ServersOK, SchemaInv, CheckColumn, Prepared
    <3> QED
      BY <2>2, <2>3, <3>2 DEF SchemaInv
  <2>6. CASE EnsuredColumns(dialect)[at[s]] \notin columns
    <3>1. pc'[s] = "alter" /\ at'[s] = at[s]
      BY <1>3, <2>6 DEF CheckColumn, ServersOK
    <3>2. Migrated(s)'
      BY <1>3, <2>1, <2>2, <3>1 DEF Migrated, ServersOK, SchemaInv, CheckColumn, Prepared
    <3> QED
      BY <2>2, <2>3, <3>2 DEF SchemaInv
  <2> QED
    BY <2>5, <2>6
<1>4. ASSUME NEW s \in Servers, AddColumn(s)
      PROVE  SchemaInv'
  <2>1. CASE Exit(s)
    <3>1. pc'[s] = "down" /\ UNCHANGED schema
      BY <2>1 DEF Exit, Goto, ServersOK
    <3> QED
      BY <1>4, <3>1, ElsewhereSchemaInv DEF Step
  <2> DEFINE c == EnsuredColumns(dialect)[at[s]]
  <2>2. CASE /\ columns' = columns \cup {c}
             /\ at' = [at EXCEPT ![s] = @ + 1]
             /\ pc' = [pc EXCEPT ![s] = "columns"]
             /\ UNCHANGED <<dialect, tables>>
    <3>1. at[s] \in DOMAIN EnsuredColumns(dialect) /\ pc[s] = "alter"
      BY <1>4 DEF AddColumn, SchemaInv, Migrated
    <3>2. c \in LaterColumns /\ DOMAIN EnsuredColumns(dialect) \subseteq Nat
      BY <3>1, EnsuredLists DEF ServersOK
    <3> HIDE DEF c
    <3>3. \A o \in Servers \ {s} : Migrated(o)'
      BY <2>2, OthersAdd DEF SchemaInv, ServersOK
    <3>4. \A i \in DOMAIN EnsuredColumns(dialect) :
             i < at[s] + 1 => EnsuredColumns(dialect)[i] \in columns'
      BY <2>2, <3>1, <3>2 DEF SchemaInv, Migrated, ServersOK, c
    <3>5. Migrated(s)'
      BY <2>2, <3>1, <3>4 DEF Migrated, SchemaInv, ServersOK, Prepared
    <3> QED
      BY <2>2, <3>2, <3>3, <3>5 DEF SchemaInv
  <2> QED
    BY <1>4, <2>1, <2>2 DEF AddColumn
<1>5. ASSUME NEW s \in Servers, ColumnsDone(s)
      PROVE  SchemaInv'
  <2>1. pc'[s] = "count" /\ UNCHANGED <<dialect, tables, columns>>
    BY <1>5 DEF ColumnsDone, Goto, ServersOK
  <2>2. \A i \in DOMAIN EnsuredColumns(dialect) : EnsuredColumns(dialect)[i] \in columns
    BY <1>5, EnsuredLists DEF ColumnsDone, SchemaInv, Migrated, ServersOK
  <2>3. Migrated(s)'
    BY <1>5, <2>1, <2>2 DEF Migrated, SchemaInv, ColumnsDone, Ensured
  <2>4. \A o \in Servers \ {s} : Migrated(o)'
    BY <1>5, <2>1, OneMoves, OthersAdd DEF SchemaInv, ServersOK, Step
  <2> QED
    BY <2>1, <2>3, <2>4 DEF SchemaInv
<1>6. ASSUME NEW s \in Servers, Start(s) \/ Stop(s)
      PROVE  SchemaInv'
  <2>1. UNCHANGED schema /\ (pc'[s] = "down" \/ (pc'[s] = "tables" /\ at'[s] = 1))
    BY <1>6 DEF Start, Stop, Exit, Goto, ServersOK
  <2> QED
    BY <1>6, <2>1, ElsewhereSchemaInv
<1>7. ASSUME NEW s \in Servers,
             \/ CountCategories(s) \/ BeginSeed(s) \/ InsertRow(s, "masters", "link")
             \/ LinkMaster(s) \/ InsertRow(s, "orders", "responses") \/ InsertResponses(s)
             \/ InsertDemoChat(s) \/ CommitSeed(s) \/ UpsertUser(s) \/ CheckDemoChat(s)
             \/ RestoreDemoChat(s) \/ OpenChat(s)
      PROVE  SchemaInv'
  <2>1. UNCHANGED schema
    BY <1>7 DEF CountCategories, BeginSeed, InsertRow, LinkMaster, InsertResponses,
                InsertDemoChat, CommitSeed, UpsertUser, CheckDemoChat, RestoreDemoChat,
                OpenChat, Exit
  <2>2. pc[s] \in Prepared
    BY <1>7 DEF CountCategories, BeginSeed, InsertRow, LinkMaster, InsertResponses,
                InsertDemoChat, CommitSeed, UpsertUser, CheckDemoChat, RestoreDemoChat,
                OpenChat, Prepared, Positions, Seeding
  <2>3. pc'[s] \in Prepared \/ pc'[s] = "down"
    BY <1>7, <2>2 DEF CountCategories, BeginSeed, InsertRow, LinkMaster, InsertResponses,
                InsertDemoChat, CommitSeed, UpsertUser, CheckDemoChat, RestoreDemoChat,
                OpenChat, Exit, Goto, ServersOK, Prepared, Positions, Seeding
  <2> QED
    BY <1>7, <2>1, <2>2, <2>3, ElsewhereSchemaInv DEF Step
<1>8. CASE Tool
  <2>1. UNCHANGED <<dialect, pc, at>> /\ dialect = "postgres"
    BY <1>8, ToolMoves
  <2>2. CASE UNCHANGED <<tables, columns>>
    BY <2>1, <2>2 DEF SchemaInv, Migrated
  <2>3. CASE ToolCommit
    <3>1. /\ tables' = tables \cup ToolTables
          /\ columns' = columns \cup {c \in ToolColumns : c[1] \notin tables}
      BY <2>3 DEF ToolCommit
    <3>2. tables' \subseteq AllTables(dialect) /\ columns' \subseteq LaterColumns
      BY <2>1, <3>1, SameTables DEF SchemaInv, ToolColumns, ToolTables, TableNames
    <3>3. \A c \in LaterColumns \ Ensured(dialect) : c[1] \in tables' => c \in columns'
      BY <2>1, <3>1, ToolColumnsSuffice DEF SchemaInv
    <3>4. \A s \in Servers : Migrated(s)'
      BY <2>1, <3>1, <3>2, OthersAdd DEF SchemaInv
    <3> QED
      BY <2>1, <3>2, <3>3, <3>4 DEF SchemaInv
  <2> QED
    BY <1>8, <2>2, <2>3 DEF Tool, ToolSchema, ToolTruncate, ToolFails
<1>9. CASE UNCHANGED vars
  BY <1>9 DEF vars, SchemaInv, Migrated
<1> QED
  BY <1>1, <1>2, <1>3, <1>4, <1>5, <1>6, <1>7, <1>8, <1>9 DEF Next, Step

\* A server that serves has gone through all of migrate.
LEMMA SchemaInvSuffices == ServersOK /\ SchemaInv => SchemaReady
<1> SUFFICES ASSUME ServersOK, SchemaInv, NEW s \in Servers, pc[s] = "serving"
             PROVE  tables = AllTables(dialect) /\ columns = LaterColumns
  BY DEF SchemaReady, Serving
<1>1. tables = AllTables(dialect) /\ Ensured(dialect) \subseteq columns
  BY DEF SchemaInv, Migrated, Prepared, Positions
<1>2. \A c \in LaterColumns : c[1] \in AllTables(dialect)
  BY SameTables DEF ServersOK, LaterColumns, TableNames
<1> QED
  BY <1>1, <1>2 DEF SchemaInv
-----------------------------------------------------------------------------
(* Rows and sequences.                                                     *)

\* No seed is open at the start.
LEMMA InitRowsOK == Init => RowsOK
<1> SUFFICES ASSUME Init
             PROVE  RowsOK
  OBVIOUS
<1>1. SeedRows + 1 \in Int
  BY StartUpAssumption
<1>2. next \in [masters : Int, orders : Int, chats : Nat]
  BY <1>1 DEF Init
<1>3. \A s \in Servers : mine[s] = NoRows
  BY DEF Init
<1>4. mine \in [Servers -> [masters : SUBSET Int, orders : SUBSET Int]]
  BY DEF Init, NoRows
<1> QED
  BY <1>2, <1>3, <1>4, FS_EmptySet DEF RowsOK, NoRows

\* A rollback takes back at most ids of masters and orders, never of chats.
LEMMA ExitRows ==
    ASSUME ServersOK, RowsOK, NEW s \in Servers, Exit(s)
    PROVE  RowsOK' /\ next'.chats = next.chats /\ mine' = [mine EXCEPT ![s] = NoRows]
<1>1. Cardinality(mine[s].masters) \in Int /\ Cardinality(mine[s].orders) \in Int
  BY FS_CardinalityType DEF RowsOK
<1>2. next' \in [masters : Int, orders : Int, chats : Nat] /\ next'.chats = next.chats
  <2>1. CASE dialect = "sqlite"
    <3> DEFINE m == next.masters - Cardinality(mine[s].masters)
               n == next.orders - Cardinality(mine[s].orders)
    <3>1. m \in Int /\ n \in Int
      BY <1>1 DEF RowsOK
    <3>2. next' = [next EXCEPT !.masters = m, !.orders = n]
      BY <2>1, Zenon DEF Exit, Rollback
    <3> HIDE DEF m, n
    <3>3. next' = [masters |-> m, orders |-> n, chats |-> next.chats]
      BY <3>2 DEF RowsOK
    <3> QED
      BY <3>1, <3>3 DEF RowsOK
  <2>2. CASE dialect # "sqlite"
    BY <2>2 DEF Exit, Rollback, RowsOK
  <2> QED
    BY <2>1, <2>2
<1>3. mine' = [mine EXCEPT ![s] = NoRows]
  BY DEF Exit
<1> QED
  BY <1>2, <1>3, FS_EmptySet DEF RowsOK, NoRows

\* What drawing an id does to the rows of a seed and to the sequences.
LEMMA DrawnRow ==
    ASSUME RowsOK, NEW s \in Servers, NEW kind \in {"masters", "orders"},
           NEW after, InsertRow(s, kind, after)
    PROVE  /\ mine'[s].masters = IF kind = "masters" THEN mine[s].masters \cup {next.masters}
                                 ELSE mine[s].masters
           /\ mine'[s].orders = IF kind = "orders" THEN mine[s].orders \cup {next.orders}
                                ELSE mine[s].orders
           /\ \A o \in Servers \ {s} : mine'[o] = mine[o]
           /\ next'.chats = next.chats
           /\ next'.masters = IF kind = "masters" THEN next.masters + 1 ELSE next.masters
           /\ next'.orders = IF kind = "orders" THEN next.orders + 1 ELSE next.orders
           /\ RowsOK'
<1>1. /\ mine' = [mine EXCEPT ![s][kind] = @ \cup {next[kind]}]
      /\ next' = [next EXCEPT ![kind] = @ + 1]
  BY DEF InsertRow
<1>2. \A o \in Servers \ {s} : mine'[o] = mine[o]
  BY <1>1 DEF RowsOK
<1>3. mine[s] \in [masters : SUBSET Int, orders : SUBSET Int]
  BY DEF RowsOK
<1>4. mine'[s] = [mine[s] EXCEPT ![kind] = @ \cup {next[kind]}]
  BY <1>1 DEF RowsOK
<1>5. next[kind] \in Int
  BY DEF RowsOK
<1>6. /\ mine'[s] \in [masters : SUBSET Int, orders : SUBSET Int]
      /\ mine'[s].masters = IF kind = "masters" THEN mine[s].masters \cup {next.masters}
                            ELSE mine[s].masters
      /\ mine'[s].orders = IF kind = "orders" THEN mine[s].orders \cup {next.orders}
                           ELSE mine[s].orders
  BY <1>3, <1>4, <1>5
<1>7. /\ next' \in [masters : Int, orders : Int, chats : Nat]
      /\ next'.chats = next.chats
      /\ next'.masters = IF kind = "masters" THEN next.masters + 1 ELSE next.masters
      /\ next'.orders = IF kind = "orders" THEN next.orders + 1 ELSE next.orders
  BY <1>1 DEF RowsOK
<1>8. IsFiniteSet(mine'[s].masters) /\ IsFiniteSet(mine'[s].orders)
  <2>1. /\ IsFiniteSet(mine[s].masters \cup {next.masters})
        /\ IsFiniteSet(mine[s].orders \cup {next.orders})
    BY FS_AddElement DEF RowsOK
  <2> QED
    BY <1>6, <2>1 DEF RowsOK
<1>9. mine' \in [Servers -> [masters : SUBSET Int, orders : SUBSET Int]]
  BY <1>1, <1>2, <1>6 DEF RowsOK
<1> QED
  BY <1>2, <1>6, <1>7, <1>8, <1>9 DEF RowsOK

\* Rows and sequences keep their types.
LEMMA NextRowsOK == ServersOK /\ RowsOK /\ [Next]_vars => RowsOK'
<1> SUFFICES ASSUME ServersOK, RowsOK, [Next]_vars
             PROVE  RowsOK'
  OBVIOUS
<1>1. ASSUME NEW s \in Servers,
             \/ Start(s) \/ CreateTable(s) \/ TablesDone(s) \/ CheckColumn(s) \/ ColumnsDone(s)
             \/ CountCategories(s) \/ BeginSeed(s) \/ UpsertUser(s) \/ CheckDemoChat(s)
      PROVE  RowsOK'
  <2>1. UNCHANGED <<next, mine>>
    BY <1>1 DEF Start, CreateTable, TablesDone, CheckColumn, ColumnsDone, CountCategories,
                BeginSeed, UpsertUser, CheckDemoChat
  <2> QED
    BY <2>1 DEF RowsOK
<1>2. ASSUME NEW s \in Servers,
             AddColumn(s) \/ LinkMaster(s) \/ InsertResponses(s) \/ InsertDemoChat(s) \/ Stop(s)
      PROVE  RowsOK'
  <2>1. Exit(s) \/ UNCHANGED <<next, mine>>
    BY <1>2 DEF AddColumn, LinkMaster, InsertResponses, InsertDemoChat, Stop
  <2> QED
    BY <2>1, ExitRows DEF RowsOK
<1>3. ASSUME NEW s \in Servers,
             InsertRow(s, "masters", "link") \/ InsertRow(s, "orders", "responses")
      PROVE  RowsOK'
  BY <1>3, DrawnRow
<1>4. ASSUME NEW s \in Servers, CommitSeed(s)
      PROVE  RowsOK'
  <2>1. /\ mine' \in [Servers -> [masters : SUBSET Int, orders : SUBSET Int]]
        /\ \A o \in Servers : IsFiniteSet(mine'[o].masters) /\ IsFiniteSet(mine'[o].orders)
    BY <1>4, FS_EmptySet DEF CommitSeed, RowsOK, NoRows
  <2>2. next' \in [masters : Int, orders : Int, chats : Nat]
    BY <1>4 DEF CommitSeed, RowsOK
  <2> QED
    BY <2>1, <2>2 DEF RowsOK
<1>5. ASSUME NEW s \in Servers, RestoreDemoChat(s) \/ OpenChat(s)
      PROVE  RowsOK'
  <2>1. UNCHANGED mine
    BY <1>5 DEF RestoreDemoChat, OpenChat
  <2>2. next' \in [masters : Int, orders : Int, chats : Nat]
    BY <1>5 DEF RestoreDemoChat, OpenChat, RowsOK
  <2> QED
    BY <2>1, <2>2 DEF RowsOK
<1>6. CASE Tool
  <2>1. CASE ToolCommit
    <3>1. SeedRows + 1 \in Int
      BY StartUpAssumption
    <3>2. next' \in [masters : Int, orders : Int, chats : Nat]
      BY <2>1, <3>1 DEF ToolCommit
    <3> QED
      BY <2>1, <3>2 DEF ToolCommit, RowsOK
  <2>2. CASE UNCHANGED <<next, mine>>
    BY <2>2 DEF RowsOK
  <2> QED
    BY <1>6, <2>1, <2>2 DEF Tool, ToolSchema, ToolTruncate, ToolFails
<1>7. CASE UNCHANGED vars
  BY <1>7 DEF vars, RowsOK
<1> QED
  BY <1>1, <1>2, <1>3, <1>4, <1>5, <1>6, <1>7 DEF Next, Step
-----------------------------------------------------------------------------
(* Seeding.                                                                *)

\* An empty database, or one that an older server seeded.
LEMMA InitSeedInv == Init => SeedInv
<1> SUFFICES ASSUME Init
             PROVE  SeedInv
  OBVIOUS
<1>1. AllOrNothing
  BY StartUpAssumption DEF Init, AllOrNothing, Rows
<1>2. \A s \in Servers : pc[s] = "down" /\ mine[s] = NoRows
  BY DEF Init
<1>3. tool = "idle"
  BY DEF Init
<1> QED
  BY <1>1, <1>2, <1>3 DEF SeedInv, Seeder, Apart, Seeding, Seeded, NoRows

\* What a server does before its seed commits concerns its own rows only.
LEMMA OneSeeder ==
    ASSUME ServersOK, SeedInv, NEW s \in Servers,
           UNCHANGED <<dialect, categories, masters, orders, chats, tool>>,
           \A o \in Servers \ {s} : pc'[o] = pc[o] /\ mine'[o] = mine[o],
           next.orders \in Int, next'.orders \in Int,
           \A o \in Servers : mine[o].orders \subseteq Int,
           dialect = "postgres" => next.orders <= next'.orders,
           Seeder(s)',
           \A o \in Servers \ {s} : Apart(s, o)'
    PROVE  SeedInv'
<1>1. AllOrNothing'
  BY DEF SeedInv, AllOrNothing
<1>2. ASSUME NEW o \in Servers \ {s}
      PROVE  Seeder(o)'
  <2>1. Seeder(o) /\ pc'[o] = pc[o] /\ mine'[o] = mine[o]
    BY DEF SeedInv
  <2>2. Sees(o, "orders")' = Sees(o, "orders") /\ Sees(o, "masters")' = Sees(o, "masters")
    BY <2>1 DEF Sees
  <2>3. dialect = "postgres" => \A i \in mine[o].orders : i < next'.orders
    BY <2>1 DEF Seeder
  <2> QED
    BY <2>1, <2>2, <2>3 DEF Seeder
<1>3. ASSUME NEW p \in Servers, NEW o \in Servers, p # o
      PROVE  Apart(p, o)'
  <2>1. CASE p # s /\ o # s
    BY <1>3, <2>1 DEF SeedInv, Apart
  <2>2. CASE p = s
    BY <1>3, <2>2
  <2>3. CASE o = s
    <3>1. Apart(s, p)'
      BY <1>3, <2>3
    <3> QED
      BY <2>3, <3>1 DEF Apart
  <2> QED
    BY <2>1, <2>2, <2>3
<1> QED
  BY <1>1, <1>2, <1>3 DEF SeedInv

\* A seed that ends without a commit leaves nothing behind but the ids it drew.
LEMMA ExitSeedInv ==
    ASSUME ServersOK, RowsOK, SeedInv, NEW s \in Servers, Exit(s)
    PROVE  SeedInv'
<1>1. /\ pc' = [pc EXCEPT ![s] = "down"]
      /\ UNCHANGED <<dialect, categories, masters, orders, chats, tool>>
  BY DEF Exit, Goto, schema, data
<1>2. RowsOK' /\ mine' = [mine EXCEPT ![s] = NoRows]
  BY ExitRows
<1>3. dialect = "postgres" => next' = next
  BY DEF Exit, Rollback
<1>4. /\ \A o \in Servers \ {s} : pc'[o] = pc[o] /\ mine'[o] = mine[o]
      /\ pc'[s] = "down" /\ mine'[s] = NoRows
  BY <1>1, <1>2 DEF ServersOK, RowsOK
<1>5. Seeder(s)'
  BY <1>4 DEF Seeder, Seeding, Seeded, NoRows
<1>6. \A o \in Servers \ {s} : Apart(s, o)'
  BY <1>4 DEF Apart, Seeding, NoRows
<1>7. /\ next.orders \in Int /\ next'.orders \in Int
      /\ \A o \in Servers : mine[o].orders \subseteq Int
  BY <1>2 DEF RowsOK
<1> QED
  BY <1>1, <1>3, <1>4, <1>5, <1>6, <1>7, OneSeeder

\* A server that neither seeds nor is about to.
LEMMA ElsewhereSeedInv ==
    ASSUME ServersOK, RowsOK, SeedInv, NEW s \in Servers,
           \A o \in Servers \ {s} : pc'[o] = pc[o],
           UNCHANGED <<dialect, categories, masters, orders, chats, tool, mine, next>>,
           pc[s] \notin Seeding, pc'[s] \notin Seeding,
           pc'[s] = "begin" => categories = 0,
           pc'[s] \in Seeded => categories = 1
    PROVE  SeedInv'
<1>1. mine[s] = NoRows
  BY DEF SeedInv, Seeder
<1>2. Seeder(s)'
  BY <1>1 DEF SeedInv, Seeder, Seeding, NoRows
<1>3. \A o \in Servers \ {s} : Apart(s, o)'
  BY <1>1 DEF Apart, NoRows
<1>4. next.orders \in Int /\ \A o \in Servers : mine[o].orders \subseteq Int
  BY DEF RowsOK
<1> QED
  BY <1>2, <1>3, <1>4, OneSeeder

\* Every step keeps seeds apart, and the data whole or absent.
LEMMA NextSeedInv == ServersOK /\ RowsOK /\ SeedInv /\ [Next]_vars => SeedInv'
<1> SUFFICES ASSUME ServersOK, RowsOK, SeedInv, [Next]_vars
             PROVE  SeedInv'
  OBVIOUS
<1> USE DEF schema, data, history
<1>0. /\ next.orders \in Int /\ next.chats \in Nat
      /\ \A o \in Servers : mine[o].orders \subseteq Int
  BY DEF RowsOK
<1>1. ASSUME NEW s \in Servers,
             \/ Start(s) \/ CreateTable(s) \/ TablesDone(s) \/ CheckColumn(s) \/ ColumnsDone(s)
             \/ CountCategories(s) \/ UpsertUser(s) \/ CheckDemoChat(s)
      PROVE  SeedInv'
  <2>1. \A o \in Servers \ {s} : pc'[o] = pc[o]
    BY <1>1, OneMoves DEF Step, ServersOK
  <2>2. UNCHANGED <<dialect, categories, masters, orders, chats, tool, mine, next>>
    BY <1>1 DEF Start, CreateTable, TablesDone, CheckColumn, ColumnsDone, CountCategories,
                UpsertUser, CheckDemoChat
  <2>3. pc[s] \notin Seeding /\ pc'[s] \notin Seeding
    BY <1>1 DEF Start, CreateTable, TablesDone, CheckColumn, ColumnsDone, CountCategories,
                UpsertUser, CheckDemoChat, Goto, ServersOK, Seeding
  <2>4. pc'[s] = "begin" => categories = 0
    BY <1>1 DEF Start, CreateTable, TablesDone, CheckColumn, ColumnsDone, CountCategories,
                UpsertUser, CheckDemoChat, Goto, ServersOK, SeedInv, AllOrNothing
  <2>5. pc'[s] \in Seeded => categories = 1
    BY <1>1 DEF Start, CreateTable, TablesDone, CheckColumn, ColumnsDone, CountCategories,
                UpsertUser, CheckDemoChat, Goto, ServersOK, SeedInv, AllOrNothing, Seeder, Seeded
  <2> QED
    BY <2>1, <2>2, <2>3, <2>4, <2>5, ElsewhereSeedInv
<1>2. ASSUME NEW s \in Servers, AddColumn(s)
      PROVE  SeedInv'
  <2>1. CASE Exit(s)
    BY <2>1, ExitSeedInv
  <2>2. CASE /\ pc' = [pc EXCEPT ![s] = "columns"]
             /\ UNCHANGED <<dialect, data, next, mine, tool>>
    <3>1. pc[s] \notin Seeding /\ pc'[s] = "columns"
      BY <1>2, <2>2 DEF AddColumn, ServersOK, Seeding
    <3> QED
      BY <2>2, <3>1, ElsewhereSeedInv DEF Seeding, Seeded
  <2> QED
    BY <1>2, <2>1, <2>2 DEF AddColumn
<1>3. ASSUME NEW s \in Servers, Stop(s)
      PROVE  SeedInv'
  BY <1>3, ExitSeedInv DEF Stop
<1>4. ASSUME NEW s \in Servers, BeginSeed(s)
      PROVE  SeedInv'
  <2>1. /\ \A o \in Servers \ {s} : pc'[o] = pc[o] /\ mine'[o] = mine[o]
        /\ pc[s] = "begin" /\ pc'[s] = "masters" /\ mine'[s] = mine[s]
        /\ UNCHANGED <<dialect, categories, masters, orders, chats, tool, next>>
    BY <1>4 DEF BeginSeed, Goto, ServersOK
  <2>2. mine[s] = NoRows
    BY <2>1 DEF SeedInv, Seeder, Seeding
  <2>3. Seeder(s)'
    BY <1>4, <2>1, <2>2 DEF SeedInv, Seeder, Seeding, Seeded, NoRows, BeginSeed, MayWrite, Unlocked
  <2>4. \A o \in Servers \ {s} : Apart(s, o)'
    BY <1>4, <2>1, <2>2 DEF Apart, NoRows, BeginSeed, MayWrite
  <2> QED
    BY <1>0, <2>1, <2>3, <2>4, OneSeeder
<1>5. ASSUME NEW s \in Servers, NEW kind \in {"masters", "orders"},
             NEW after \in {"link", "responses"}, InsertRow(s, kind, after)
      PROVE  SeedInv'
  <2>1. /\ pc[s] \in {"masters", "orders"} /\ pc'[s] \in {"masters", "orders", "link", "responses"}
        /\ \A o \in Servers \ {s} : pc'[o] = pc[o]
        /\ UNCHANGED <<dialect, categories, masters, orders, chats, tool>>
    BY <1>5 DEF InsertRow, Goto, ServersOK
  <2>2. /\ \A o \in Servers \ {s} : mine'[o] = mine[o]
        /\ next'.orders \in Int /\ next.orders <= next'.orders
    BY <1>0, <1>5, DrawnRow
  <2>3. \/ mine'[s].orders = mine[s].orders
        \/ mine'[s].orders = mine[s].orders \cup {next.orders} /\ next'.orders = next.orders + 1
    BY <1>5, DrawnRow
  <2>4. Seeder(s)'
    BY <1>0, <2>1, <2>2, <2>3 DEF SeedInv, Seeder, Seeding, Seeded
  <2>5. ASSUME NEW o \in Servers \ {s}
        PROVE  Apart(s, o)'
    <3>1. Apart(s, o) /\ Seeder(o)
      BY DEF SeedInv
    <3>2. dialect = "postgres" => next.orders \notin mine[o].orders
      BY <1>0, <3>1 DEF Seeder
    <3>3. pc[s] \in Seeding /\ pc'[o] = pc[o] /\ mine'[o] = mine[o]
      BY <2>1, <2>2 DEF Seeding
    <3> QED
      BY <2>1, <2>3, <3>1, <3>2, <3>3 DEF Apart
  <2> QED
    BY <1>0, <2>1, <2>2, <2>4, <2>5, OneSeeder
<1>6. ASSUME NEW s \in Servers, LinkMaster(s) \/ InsertResponses(s) \/ InsertDemoChat(s)
      PROVE  SeedInv'
  <2>1. CASE Exit(s)
    BY <2>1, ExitSeedInv
  <2>2. CASE ~Exit(s)
    <3>1. /\ \A o \in Servers \ {s} : pc'[o] = pc[o]
          /\ pc[s] \in Seeding /\ pc'[s] \in {"orders", "chat", "commit"}
          /\ UNCHANGED <<dialect, categories, masters, orders, chats, tool, next, mine>>
      BY <1>6, <2>2 DEF LinkMaster, InsertResponses, InsertDemoChat, Goto, ServersOK, Seeding
    <3>2. /\ pc'[s] \in {"chat", "commit"} =>
               1 \in Sees(s, "orders") /\ Rows \subseteq Sees(s, "masters")
          /\ pc'[s] = "commit" => 1 \notin chats
      BY <1>6, <2>2 DEF LinkMaster, InsertResponses, InsertDemoChat, Goto, ServersOK,
                        ResponsesRefused, ChatRefused, SeededChats, SeedInv, Seeder
    <3>3. pc'[s] = "commit" => categories = 0
      BY <3>1, <3>2 DEF SeedInv, Seeder, AllOrNothing
    <3>4. Sees(s, "orders")' = Sees(s, "orders") /\ Sees(s, "masters")' = Sees(s, "masters")
      BY <3>1 DEF Sees
    <3>5. Seeder(s)'
      BY <3>1, <3>2, <3>3, <3>4 DEF SeedInv, Seeder, Seeding, Seeded
    <3>6. \A o \in Servers \ {s} : Apart(s, o)'
      BY <3>1 DEF SeedInv, Apart, Seeding
    <3> QED
      BY <1>0, <3>1, <3>5, <3>6, OneSeeder
  <2> QED
    BY <2>1, <2>2
\* The heart of it: the seed that commits is the only one that could.
<1>7. ASSUME NEW s \in Servers, CommitSeed(s)
      PROVE  SeedInv'
  <2>1. /\ pc[s] = "commit" /\ categories = 0
        /\ 1 \in Sees(s, "orders") /\ Rows \subseteq Sees(s, "masters")
        /\ orders = {} /\ masters = {} /\ chats = {}
    BY <1>7 DEF CommitSeed, SeedInv, Seeder, AllOrNothing
  <2>2. 1 \in mine[s].orders /\ Rows \subseteq mine[s].masters
    BY <2>1 DEF Sees
  <2>3. /\ categories' = 1 /\ chats' = {1}
        /\ orders' = mine[s].orders /\ masters' = mine[s].masters
        /\ \A o \in Servers \ {s} : pc'[o] = pc[o] /\ mine'[o] = mine[o]
        /\ pc'[s] = "users" /\ mine'[s] = NoRows
        /\ UNCHANGED <<dialect, tool>>
    BY <1>7, <2>1 DEF CommitSeed, SeededChats, Goto, ServersOK, RowsOK
  <2>4. next'.orders = next.orders
    BY <1>7 DEF CommitSeed, RowsOK
  <2>5. AllOrNothing'
    BY <2>2, <2>3 DEF AllOrNothing
  <2>6. ASSUME NEW o \in Servers \ {s}
        PROVE  Seeder(o)' /\ pc[o] \notin {"chat", "commit"}
    <3>1. Seeder(o) /\ Apart(s, o)
      BY DEF SeedInv
    <3>2. pc[o] \notin {"chat", "commit"}
      BY <2>1, <2>2, <3>1 DEF Seeder, Apart, Sees, Seeding, ServersOK
    <3> QED
      BY <2>3, <2>4, <3>1, <3>2 DEF Seeder
  <2>7. Seeder(s)'
    BY <2>3 DEF Seeder, Seeding, Seeded, NoRows
  <2>8. ASSUME NEW p \in Servers, NEW o \in Servers, p # o
        PROVE  Apart(p, o)'
    <3>1. Apart(p, o)
      BY <2>8 DEF SeedInv
    <3>2. CASE p # s /\ o # s
      BY <2>3, <3>1, <3>2 DEF Apart
    <3>3. CASE p = s \/ o = s
      BY <2>3, <3>3 DEF Apart, Seeding, NoRows
    <3> QED
      BY <3>2, <3>3
  <2> QED
    BY <2>5, <2>6, <2>7, <2>8 DEF SeedInv
<1>8. ASSUME NEW s \in Servers, RestoreDemoChat(s) \/ OpenChat(s)
      PROVE  SeedInv'
  <2>1. pc[s] \in {"chat1", "serving"} /\ pc'[s] = "serving" /\ pc[s] \notin Seeding
    BY <1>8 DEF RestoreDemoChat, OpenChat, Goto, ServersOK, Seeding
  <2>2. /\ \A o \in Servers \ {s} : pc'[o] = pc[o]
        /\ UNCHANGED <<dialect, categories, masters, orders, mine, tool>>
    BY <1>8 DEF RestoreDemoChat, OpenChat, Goto, ServersOK
  <2>3. chats \subseteq chats' /\ next'.orders = next.orders
    BY <1>8 DEF RestoreDemoChat, OpenChat, RowsOK
  <2>4. categories = 1
    BY <2>1 DEF SeedInv, Seeder, Seeded
  <2>5. AllOrNothing'
    BY <2>2, <2>4 DEF SeedInv, AllOrNothing
  <2>6. \A o \in Servers : pc'[o] \in Seeding \cup {"begin"} <=> pc[o] \in Seeding \cup {"begin"}
    BY <2>1, <2>2 DEF Seeding
  <2>7. ASSUME NEW o \in Servers
        PROVE  Seeder(o)'
    <3>1. Sees(o, "orders")' = Sees(o, "orders") /\ Sees(o, "masters")' = Sees(o, "masters")
      BY <2>2 DEF Sees
    <3>2. pc'[o] = pc[o] \/ o = s
      BY <2>2
    <3> QED
      BY <2>1, <2>2, <2>3, <2>4, <3>1, <3>2 DEF SeedInv, Seeder, Seeding, Seeded
  <2>8. \A p, o \in Servers : p # o => Apart(p, o)'
    BY <2>1, <2>2 DEF SeedInv, Apart, Seeding
  <2> QED
    BY <2>5, <2>7, <2>8 DEF SeedInv
<1>9. CASE Tool
  <2>1. UNCHANGED <<dialect, pc, at, mine>> /\ dialect = "postgres"
    BY <1>9, ToolMoves
  <2>2. CASE ToolCommit
    <3>1. /\ categories' = 1 /\ masters' = Rows /\ orders' = Rows /\ chats' = {1}
          /\ tool = "load" /\ tool' = "done"
      BY <2>2 DEF ToolCommit
    <3>2. \A s \in Servers : pc[s] \notin Seeding /\ mine[s] = NoRows
      BY <3>1 DEF SeedInv, Seeder
    <3>3. AllOrNothing'
      BY <3>1, StartUpAssumption DEF AllOrNothing, Rows
    <3>4. \A s \in Servers : Seeder(s)'
      BY <2>1, <3>1, <3>2 DEF Seeder, NoRows, Seeding
    <3>5. \A s, o \in Servers : s # o => Apart(s, o)'
      BY <2>1, <3>2 DEF Apart, NoRows
    <3> QED
      BY <3>3, <3>4, <3>5 DEF SeedInv
  <2>3. CASE ToolSchema \/ ToolTruncate \/ ToolFails
    <3>1. UNCHANGED <<categories, masters, orders, chats, next>>
      BY <2>3 DEF ToolSchema, ToolTruncate, ToolFails
    <3>2. tool' = "load" => \A s \in Servers : pc[s] \notin Seeding
      BY <2>3 DEF ToolSchema, ToolTruncate, ToolFails
    <3>3. \A s \in Servers : Seeder(s)'
      BY <2>1, <3>1, <3>2 DEF SeedInv, Seeder, Sees
    <3> QED
      BY <2>1, <3>1, <3>3 DEF SeedInv, AllOrNothing, Apart
  <2> QED
    BY <1>9, <2>2, <2>3 DEF Tool
<1>10. CASE UNCHANGED vars
  BY <1>10 DEF vars, SeedInv, AllOrNothing, Seeder, Apart, Sees
<1> QED
  BY <1>1, <1>2, <1>3, <1>4, <1>5, <1>6, <1>7, <1>8, <1>9, <1>10 DEF Next, Step
-----------------------------------------------------------------------------
(* Accounts and chat 1.                                                    *)

\* Nobody serves at the start.
LEMMA InitReadyInv == Init => ReadyInv
BY DEF Init, ReadyInv, Restored, Seeded

\* Users and chat 1 never go away.
LEMMA OthersRestored ==
    ASSUME NEW o \in Servers, Restored(o), pc'[o] = pc[o], at'[o] = at[o],
           users \subseteq users', 1 \in chats => 1 \in chats'
    PROVE  Restored(o)'
BY DEF Restored

\* A step that takes no account and no chat 1 away, seen from its server.
LEMMA ElsewhereReadyInv ==
    ASSUME ServersOK, ReadyInv, NEW s \in Servers,
           Start(s) \/ Step(s) \/ OpenChat(s) \/ Stop(s),
           users' = users, 1 \in chats => 1 \in chats',
           categories' = 1 => messages' = TRUE,
           Restored(s)'
    PROVE  ReadyInv'
<1>1. \A o \in Servers \ {s} : pc'[o] = pc[o] /\ at'[o] = at[o]
  BY OneMoves DEF ServersOK
<1>2. \A o \in Servers \ {s} : Restored(o)'
  BY <1>1, OthersRestored DEF ReadyInv
<1> QED
  BY <1>2 DEF ReadyInv

\* A server serves only with both accounts and chat 1, and they stay.
LEMMA NextReadyInv == ServersOK /\ SeedInv /\ ReadyInv /\ [Next]_vars => ReadyInv'
<1> SUFFICES ASSUME ServersOK, SeedInv, ReadyInv, [Next]_vars
             PROVE  ReadyInv'
  OBVIOUS
<1> USE DEF schema, data, history
<1>1. ASSUME NEW s \in Servers,
             \/ Start(s) \/ CreateTable(s) \/ TablesDone(s) \/ CheckColumn(s) \/ AddColumn(s)
             \/ ColumnsDone(s) \/ CountCategories(s) \/ BeginSeed(s)
             \/ InsertRow(s, "masters", "link") \/ LinkMaster(s)
             \/ InsertRow(s, "orders", "responses") \/ InsertResponses(s) \/ InsertDemoChat(s)
             \/ Stop(s)
      PROVE  ReadyInv'
  <2>1. UNCHANGED data
    BY <1>1 DEF Start, CreateTable, TablesDone, CheckColumn, AddColumn, ColumnsDone,
                CountCategories, BeginSeed, InsertRow, LinkMaster, InsertResponses,
                InsertDemoChat, Stop, Exit
  <2>2. pc'[s] \in Seeded => pc'[s] = "users" /\ at'[s] = 1
    BY <1>1 DEF Start, CreateTable, TablesDone, CheckColumn, AddColumn, ColumnsDone,
                CountCategories, BeginSeed, InsertRow, LinkMaster, InsertResponses,
                InsertDemoChat, Stop, Exit, Goto, ServersOK, Seeded
  <2>3. Restored(s)'
    BY <2>2 DEF Restored, Seeded
  <2> QED
    BY <1>1, <2>1, <2>3, ElsewhereReadyInv DEF Step, ReadyInv
<1>2. ASSUME NEW s \in Servers, CommitSeed(s)
      PROVE  ReadyInv'
  <2>1. /\ users' = users /\ messages' = TRUE /\ chats \subseteq chats'
        /\ pc'[s] = "users" /\ at'[s] = 1
    BY <1>2 DEF CommitSeed, Goto, ServersOK
  <2>2. Restored(s)'
    BY <2>1 DEF Restored, Seeded
  <2> QED
    BY <1>2, <2>1, <2>2, ElsewhereReadyInv DEF Step
<1>3. ASSUME NEW s \in Servers, UpsertUser(s)
      PROVE  ReadyInv'
  <2>1. /\ pc[s] = "users" /\ at[s] \in 1..2 /\ (at[s] = 2 => "customer" \in users)
    BY <1>3 DEF UpsertUser, ReadyInv, Restored
  <2>2. users' = users \cup {IF at[s] = 1 THEN "customer" ELSE "master"}
    BY <1>3, <2>1 DEF UpsertUser, Roles
  <2>3. /\ at[s] = 1 => pc'[s] = "users" /\ at'[s] = 2
        /\ at[s] = 2 => pc'[s] = "chats"
    BY <1>3, <2>1 DEF UpsertUser, Roles, Goto, ServersOK
  <2>4. Restored(s)'
    BY <2>1, <2>2, <2>3 DEF Restored, Accounts, Seeded
  <2>5. \A o \in Servers \ {s} : Restored(o)'
    <3>1. \A o \in Servers \ {s} : pc'[o] = pc[o] /\ at'[o] = at[o]
      BY <1>3, OneMoves DEF ServersOK, Step
    <3>2. chats' = chats
      BY <1>3 DEF UpsertUser
    <3> QED
      BY <2>2, <3>1, <3>2, OthersRestored DEF ReadyInv
  <2>6. users' \subseteq Accounts /\ UNCHANGED <<categories, messages>>
    BY <1>3, <2>2 DEF ReadyInv, Accounts, UpsertUser
  <2> QED
    BY <2>4, <2>5, <2>6 DEF ReadyInv
<1>4. ASSUME NEW s \in Servers, CheckDemoChat(s)
      PROVE  ReadyInv'
  <2>1. pc[s] = "chats" /\ categories = 1 /\ Accounts \subseteq users /\ messages = TRUE
    BY <1>4 DEF CheckDemoChat, SeedInv, Seeder, ReadyInv, Restored, Seeded
  <2>2. UNCHANGED data
    BY <1>4 DEF CheckDemoChat
  <2>3. pc'[s] = IF DemoChatMissing THEN "chat1" ELSE "serving"
    BY <1>4 DEF CheckDemoChat, Goto, ServersOK
  <2>4. 1 \notin chats => DemoChatMissing
    BY <2>1 DEF DemoChatMissing
  <2>5. Restored(s)'
    BY <2>1, <2>2, <2>3, <2>4 DEF Restored, Seeded
  <2> QED
    BY <1>4, <2>2, <2>5, ElsewhereReadyInv DEF Step, ReadyInv
<1>5. ASSUME NEW s \in Servers, RestoreDemoChat(s) \/ OpenChat(s)
      PROVE  ReadyInv'
  <2>1. /\ pc[s] \in {"chat1", "serving"} /\ pc'[s] = "serving"
        /\ UNCHANGED <<users, categories, messages>>
        /\ chats \subseteq chats' /\ (pc[s] = "chat1" => 1 \in chats')
    BY <1>5 DEF RestoreDemoChat, OpenChat, Goto, ServersOK
  <2>2. Restored(s)'
    BY <2>1 DEF ReadyInv, Restored, Seeded
  <2> QED
    BY <1>5, <2>1, <2>2, ElsewhereReadyInv DEF Step, ReadyInv
<1>6. CASE Tool
  <2>1. UNCHANGED <<pc, at>>
    BY <1>6, ToolMoves
  <2>2. CASE UNCHANGED data
    BY <2>1, <2>2 DEF ReadyInv, Restored
  <2>3. CASE ToolCommit
    <3>1. users' = Accounts /\ messages' = TRUE /\ chats' = {1}
      BY <2>3 DEF ToolCommit, Roles, Accounts
    <3>2. \A s \in Servers : Restored(s)'
      BY <2>1, <3>1, OthersRestored DEF ReadyInv
    <3> QED
      BY <3>1, <3>2 DEF ReadyInv
  <2> QED
    BY <1>6, <2>2, <2>3 DEF Tool, ToolSchema, ToolTruncate, ToolFails
<1>7. CASE UNCHANGED vars
  BY <1>7 DEF vars, ReadyInv, Restored
<1> QED
  BY <1>1, <1>2, <1>3, <1>4, <1>5, <1>6, <1>7 DEF Next, Step
-----------------------------------------------------------------------------
(* Chat ids.                                                               *)

\* No chat has an id at the start.
LEMMA InitChatInv == Init => ChatInv
<1> SUFFICES ASSUME Init
             PROVE  ChatInv
  OBVIOUS
<1>1. next.chats = 1 /\ chats = {} /\ clashes = 0
  BY DEF Init
<1> QED
  BY <1>1 DEF ChatInv

\* Every step keeps the sequence of chats where it should be.
LEMMA NextChatInv == ServersOK /\ RowsOK /\ SeedInv /\ ChatInv /\ [Next]_vars => ChatInv'
<1> SUFFICES ASSUME ServersOK, RowsOK, SeedInv, ChatInv, [Next]_vars
             PROVE  ChatInv'
  OBVIOUS
<1> USE DEF schema, data, history
<1>0. next.chats \in Nat
  BY DEF RowsOK
<1>1. CASE UNCHANGED <<dialect, chats, clashes>> /\ next'.chats = next.chats
  BY <1>1 DEF ChatInv
<1>2. ASSUME NEW s \in Servers,
             \/ Start(s) \/ CreateTable(s) \/ TablesDone(s) \/ CheckColumn(s) \/ AddColumn(s)
             \/ ColumnsDone(s) \/ CountCategories(s) \/ BeginSeed(s)
             \/ InsertRow(s, "masters", "link") \/ LinkMaster(s)
             \/ InsertRow(s, "orders", "responses") \/ InsertResponses(s) \/ InsertDemoChat(s)
             \/ UpsertUser(s) \/ CheckDemoChat(s) \/ Stop(s)
      PROVE  ChatInv'
  <2>1. UNCHANGED <<dialect, chats, clashes>>
    BY <1>2 DEF Start, CreateTable, TablesDone, CheckColumn, AddColumn, ColumnsDone,
                CountCategories, BeginSeed, InsertRow, LinkMaster, InsertResponses,
                InsertDemoChat, UpsertUser, CheckDemoChat, Stop, Exit
  <2>2. \/ Exit(s) \/ UNCHANGED next
        \/ \E kind \in {"masters", "orders"}, after \in {"link", "responses"} :
              InsertRow(s, kind, after)
    BY <1>2 DEF Start, CreateTable, TablesDone, CheckColumn, AddColumn, ColumnsDone,
                CountCategories, BeginSeed, LinkMaster, InsertResponses,
                InsertDemoChat, UpsertUser, CheckDemoChat, Stop
  <2>3. next'.chats = next.chats
    BY <2>2, ExitRows, DrawnRow
  <2> QED
    BY <1>1, <2>1, <2>3
<1>3. ASSUME NEW s \in Servers, CommitSeed(s)
      PROVE  ChatInv'
  <2>1. chats = {}
    BY <1>3 DEF CommitSeed, SeedInv, Seeder, AllOrNothing
  <2>2. chats' = {1} /\ UNCHANGED <<dialect, clashes>>
    BY <1>3, <2>1 DEF CommitSeed, SeededChats
  <2>3. next'.chats = IF dialect = "sqlite" THEN 2 ELSE next.chats
    BY <1>3 DEF CommitSeed, RowsOK
  <2> QED
    BY <1>0, <2>2, <2>3 DEF ChatInv, ServersOK
<1>4. ASSUME NEW s \in Servers, RestoreDemoChat(s)
      PROVE  ChatInv'
  <2>1. chats' = chats \cup {1} /\ UNCHANGED <<dialect, clashes>>
    BY <1>4 DEF RestoreDemoChat
  <2>2. next'.chats = IF dialect = "sqlite" /\ next.chats = 1 THEN 2 ELSE next.chats
    BY <1>4 DEF RestoreDemoChat, RowsOK
  <2> QED
    BY <1>0, <2>1, <2>2 DEF ChatInv, ServersOK
\* The one place an id is drawn: it is taken only while the sequence stands at 1.
<1>5. ASSUME NEW s \in Servers, OpenChat(s)
      PROVE  ChatInv'
  <2>1. next'.chats = next.chats + 1 /\ UNCHANGED dialect
    BY <1>5 DEF OpenChat, RowsOK
  <2>2. CASE chats' = chats \cup {next.chats} /\ UNCHANGED clashes
    <3>1. chats' \subseteq Nat
      BY <1>0, <2>2 DEF ChatInv
    <3>4. next'.chats >= 1
      BY <1>0, <2>1
    <3>2. \A c \in chats' : c < next'.chats \/ (dialect = "postgres" /\ c = 1)
      BY <1>0, <2>1, <2>2 DEF ChatInv
    <3>3. \/ clashes = 0
          \/ clashes = 1 /\ dialect = "postgres" /\ next'.chats >= 2
      BY <1>0, <2>1 DEF ChatInv
    <3> QED
      BY <2>1, <2>2, <3>1, <3>2, <3>3, <3>4 DEF ChatInv
  <2>3. CASE next.chats \in chats /\ clashes' = clashes + 1 /\ UNCHANGED chats
    <3>1. next.chats = 1 /\ dialect = "postgres"
      BY <1>0, <2>3 DEF ChatInv
    <3>2. clashes = 0
      BY <3>1 DEF ChatInv
    <3> QED
      BY <1>0, <2>1, <2>3, <3>1, <3>2 DEF ChatInv
  <2> QED
    BY <1>5, <2>2, <2>3 DEF OpenChat
<1>6. CASE Tool
  <2>1. CASE ToolCommit
    <3>1. chats' = {1} /\ next'.chats = 2 /\ UNCHANGED <<dialect, clashes>>
      BY <2>1 DEF ToolCommit
    <3> QED
      BY <3>1 DEF ChatInv
  <2>2. CASE ToolSchema \/ ToolTruncate \/ ToolFails
    BY <1>1, <2>2 DEF ToolSchema, ToolTruncate, ToolFails
  <2> QED
    BY <1>6, <2>1, <2>2 DEF Tool
<1>7. CASE UNCHANGED vars
  BY <1>1, <1>7 DEF vars
<1> QED
  BY <1>2, <1>3, <1>4, <1>5, <1>6, <1>7 DEF Next, Step
-----------------------------------------------------------------------------
(* Theorems.                                                               *)

\* The inductive invariant holds in every reachable state.
THEOREM Inductive == Spec => []IInv
<1>1. Init => IInv
  BY InitServersOK, InitRowsOK, InitSchemaInv, InitSeedInv, InitReadyInv, InitChatInv DEF IInv
<1>2. IInv /\ [Next]_vars => IInv'
  BY NextServersOK, NextRowsOK, NextSchemaInv, NextSeedInv, NextReadyInv, NextChatInv DEF IInv
<1>3. QED
  BY <1>1, <1>2, PTL DEF Spec

\* seed reads the count of categories outside its transaction, and any number
\* of servers and the tool may find none; the data still gets in once.
THEOREM SeedsOnce == Spec => []SeededOnce
<1>1. IInv => SeededOnce
  BY DEF IInv, SeedInv, AllOrNothing, SeededOnce
<1>2. QED
  BY <1>1, Inductive, PTL

\* A server that serves has every table and column its queries name, whoever
\* created them and however often migrate was cut short.
THEOREM SchemaIsReady == Spec => []SchemaReady
<1>1. IInv => SchemaReady
  BY SchemaInvSuffices DEF IInv
<1>2. QED
  BY <1>1, Inductive, PTL

\* A server that serves has the demonstration data whole and the accounts that
\* open it.
THEOREM DataIsReady == Spec => []DataReady
<1>1. IInv => DataReady
  <2> SUFFICES ASSUME IInv, NEW s \in Servers, pc[s] = "serving"
               PROVE  /\ categories > 0
                      /\ Rows \subseteq masters /\ 1 \in orders
                      /\ 1 \in chats
                      /\ users = {Roles[i] : i \in DOMAIN Roles}
    BY DEF DataReady, Serving
  <2>1. categories = 1 /\ Rows \subseteq masters /\ 1 \in orders
    BY DEF IInv, SeedInv, Seeder, Seeded, AllOrNothing
  <2>2. 1 \in chats /\ users = Accounts
    BY DEF IInv, ReadyInv, Restored, Seeded
  <2>3. Accounts = {Roles[i] : i \in DOMAIN Roles}
    BY DEF Accounts, Roles
  <2> QED
    BY <2>1, <2>2, <2>3
<1>2. QED
  BY <1>1, Inductive, PTL

\* The sequence of chats meets the explicit id 1 at most once on Postgres, and
\* never on SQLite.
THEOREM ChatIdsClashAtMostOnce == Spec => []ChatIdsClashOnce
<1>1. IInv => ChatIdsClashOnce
  BY DEF IInv, ChatInv, ChatIdsClashOnce, ServersOK
<1>2. QED
  BY <1>1, Inductive, PTL

\* On Postgres, once order 1 or one of the first masters was drawn by a seed
\* that failed, no later seed commits, whoever starts: only the tool brings the
\* data in.
SpoiltForGood == [][SeedImpossible => SeedImpossible' \/ ToolCommit]_vars

\* A used-up id stays so while nothing commits and only new ids are drawn.
LEMMA StaysUsedUp ==
    ASSUME NEW kind \in {"masters", "orders"}, NEW i \in Int, UsedUp(kind, i),
           next[kind] \in Int, next'[kind] \in Int, next[kind] <= next'[kind],
           \A s \in Servers : mine'[s][kind] \subseteq mine[s][kind] \cup {next[kind]},
           UNCHANGED <<masters, orders>>
    PROVE  UsedUp(kind, i)'
BY DEF UsedUp, Sees

\* So it does when servers draw ids or roll back.
LEMMA StaysImpossible ==
    ASSUME SeedImpossible, RowsOK, RowsOK', UNCHANGED <<dialect, categories, masters, orders>>,
           next.masters <= next'.masters, next.orders <= next'.orders,
           \A s \in Servers :
              /\ mine'[s].masters \subseteq mine[s].masters \cup {next.masters}
              /\ mine'[s].orders \subseteq mine[s].orders \cup {next.orders}
    PROVE  SeedImpossible'
<1>1. /\ next.masters \in Int /\ next'.masters \in Int
      /\ next.orders \in Int /\ next'.orders \in Int
  BY DEF RowsOK
<1>2. CASE UsedUp("orders", 1)
  <2>1. UsedUp("orders", 1)'
    BY <1>1, <1>2, StaysUsedUp
  <2> QED
    BY <2>1 DEF SeedImpossible
<1>3. CASE \E i \in Rows : UsedUp("masters", i)
  <2>1. PICK i \in Rows : UsedUp("masters", i)
    BY <1>3
  <2>2. i \in Int
    BY DEF Rows
  <2>3. UsedUp("masters", i)'
    BY <1>1, <2>1, <2>2, StaysUsedUp
  <2> QED
    BY <2>3 DEF SeedImpossible, Rows
<1> QED
  BY <1>2, <1>3 DEF SeedImpossible

\* main.go:761: a seed that fails after drawing those ids has spoilt every
\* later one, for good.
THEOREM SpoiltSeedsStaySpoilt == Spec => SpoiltForGood
<1>1. ASSUME IInv, IInv', [Next]_vars, SeedImpossible
      PROVE  SeedImpossible' \/ ToolCommit
  <2> USE DEF schema, data, history
  <2>1. dialect = "postgres" /\ RowsOK /\ RowsOK'
    BY <1>1 DEF SeedImpossible, IInv
  <2>2. ASSUME UNCHANGED <<dialect, categories, masters, orders, mine>>,
               next'.masters = next.masters, next'.orders = next.orders
        PROVE  SeedImpossible'
    BY <1>1, <2>1, <2>2, StaysImpossible DEF RowsOK
  <2>3. ASSUME NEW s \in Servers, Exit(s)
        PROVE  SeedImpossible'
    <3>1. UNCHANGED <<dialect, categories, masters, orders, next>>
      BY <2>1, <2>3 DEF Exit, Rollback
    <3>2. mine' = [mine EXCEPT ![s] = NoRows]
      BY <2>3 DEF Exit
    <3>3. \A o \in Servers : /\ mine'[o].masters \subseteq mine[o].masters
                            /\ mine'[o].orders \subseteq mine[o].orders
      BY <2>1, <3>2 DEF RowsOK, NoRows
    <3> QED
      BY <1>1, <2>1, <3>1, <3>3, StaysImpossible DEF RowsOK
  <2>4. ASSUME NEW s \in Servers,
               \/ Start(s) \/ CreateTable(s) \/ TablesDone(s) \/ CheckColumn(s) \/ AddColumn(s)
               \/ ColumnsDone(s) \/ CountCategories(s) \/ BeginSeed(s) \/ LinkMaster(s)
               \/ InsertResponses(s) \/ InsertDemoChat(s) \/ UpsertUser(s) \/ CheckDemoChat(s)
               \/ Stop(s)
        PROVE  SeedImpossible'
    <3>1. Exit(s) \/ UNCHANGED <<dialect, categories, masters, orders, next, mine>>
      BY <2>4 DEF Start, CreateTable, TablesDone, CheckColumn, AddColumn, ColumnsDone,
                  CountCategories, BeginSeed, LinkMaster, InsertResponses, InsertDemoChat,
                  UpsertUser, CheckDemoChat, Stop
    <3> QED
      BY <2>2, <2>3, <3>1
  <2>5. ASSUME NEW s \in Servers, NEW kind \in {"masters", "orders"},
               NEW after \in {"link", "responses"}, InsertRow(s, kind, after)
        PROVE  SeedImpossible'
    <3>1. UNCHANGED <<dialect, categories, masters, orders>>
      BY <2>5 DEF InsertRow
    <3>2. next.masters <= next'.masters /\ next.orders <= next'.orders
      BY <2>1, <2>5, DrawnRow DEF RowsOK
    <3>3. \A o \in Servers :
             /\ mine'[o].masters \subseteq mine[o].masters \cup {next.masters}
             /\ mine'[o].orders \subseteq mine[o].orders \cup {next.orders}
      BY <2>1, <2>5, DrawnRow
    <3> QED
      BY <1>1, <2>1, <3>1, <3>2, <3>3, StaysImpossible
  <2>6. ASSUME NEW s \in Servers, CommitSeed(s)
        PROVE  FALSE
    <3>1. 1 \in Sees(s, "orders") /\ Rows \subseteq Sees(s, "masters")
      BY <1>1, <2>6 DEF CommitSeed, IInv, SeedInv, Seeder
    <3> QED
      BY <1>1, <3>1 DEF SeedImpossible, UsedUp
  <2>7. ASSUME NEW s \in Servers, RestoreDemoChat(s) \/ OpenChat(s)
        PROVE  SeedImpossible'
    <3>1. /\ UNCHANGED <<dialect, categories, masters, orders, mine>>
          /\ next'.masters = next.masters /\ next'.orders = next.orders
      BY <2>1, <2>7 DEF RestoreDemoChat, OpenChat, RowsOK
    <3> QED
      BY <2>2, <3>1
  <2>8. CASE ToolSchema \/ ToolTruncate \/ ToolFails
    BY <2>2, <2>8 DEF ToolSchema, ToolTruncate, ToolFails
  <2>9. CASE UNCHANGED vars
    BY <2>2, <2>9 DEF vars
  <2> QED
    BY <1>1, <2>4, <2>5, <2>6, <2>7, <2>8, <2>9 DEF Next, Step, Tool
<1>2. IInv /\ IInv' /\ [Next]_vars => [SeedImpossible => SeedImpossible' \/ ToolCommit]_vars
  BY <1>1
<1> QED
  BY <1>2, Inductive, PTL DEF Spec, SpoiltForGood

\* Until then nobody serves.
THEOREM SpoiltNeverServes == Spec => [](SeedImpossible => \A s \in Servers : ~Serving(s))
<1>1. IInv => (SeedImpossible => \A s \in Servers : ~Serving(s))
  BY DEF IInv, SeedInv, Seeder, Seeded, SeedImpossible, Serving
<1> QED
  BY <1>1, Inductive, PTL
-----------------------------------------------------------------------------
(* StartUp implements Deployment.                                          *)

Loaded == categories > 0 /\ ~demoMaster

\* A listing is without the seeded master's name only once the tool is done.
NamedUntilLoaded == demoMaster \in BOOLEAN /\ (Loaded => tool = "done")

\* Whether the data is from the tool changes when data gets in and not before.
LEMMA NamedInv == Spec => []NamedUntilLoaded
<1>1. Init => NamedUntilLoaded
  <2> SUFFICES ASSUME Init
               PROVE  NamedUntilLoaded
    OBVIOUS
  <2>1. \/ categories = 0 /\ demoMaster = FALSE
        \/ categories = 1 /\ demoMaster = TRUE
    BY DEF Init
  <2>2. demoMaster \in BOOLEAN
    BY <2>1
  <2>3. ~Loaded
    BY <2>1 DEF Loaded
  <2> QED
    BY <2>2, <2>3 DEF NamedUntilLoaded
<1>2. NamedUntilLoaded /\ [Next]_vars => NamedUntilLoaded'
  <2> SUFFICES ASSUME NamedUntilLoaded, [Next]_vars
               PROVE  NamedUntilLoaded'
    OBVIOUS
  <2> USE DEF schema, data, history
  <2>1. CASE UNCHANGED <<categories, demoMaster, tool>>
    BY <2>1 DEF NamedUntilLoaded, Loaded
  <2>2. ASSUME NEW s \in Servers, CommitSeed(s)
        PROVE  NamedUntilLoaded'
    BY <2>2 DEF CommitSeed, NamedUntilLoaded, Loaded
  <2>3. ASSUME NEW s \in Servers, Start(s) \/ Step(s) \/ OpenChat(s) \/ Stop(s), ~CommitSeed(s)
        PROVE  UNCHANGED <<categories, demoMaster, tool>>
    BY <2>3 DEF Start, Step, OpenChat, Stop, CreateTable, TablesDone, CheckColumn, AddColumn,
                ColumnsDone, CountCategories, BeginSeed, InsertRow, LinkMaster,
                InsertResponses, InsertDemoChat, UpsertUser, CheckDemoChat, RestoreDemoChat,
                Exit
  <2>4. CASE Tool
    BY <2>4 DEF Tool, ToolSchema, ToolTruncate, ToolCommit, ToolFails, ToolOpen,
                NamedUntilLoaded, Loaded
  <2>5. CASE UNCHANGED vars
    BY <2>1, <2>5 DEF vars
  <2> QED
    BY <2>1, <2>2, <2>3, <2>4, <2>5 DEF Next
<1> QED
  BY <1>1, <1>2, PTL DEF Spec

\* An empty database or an old one is a state the promise begins with.
LEMMA InitRefines == Init => D!DeploymentInit
<1> SUFFICES ASSUME Init
             PROVE  D!DeploymentInit
  OBVIOUS
<1>1. categories \in {0, 1} /\ ~(categories > 0 /\ ~demoMaster)
  BY DEF Init
<1>2. {s \in Servers : Serving(s)} = {}
  BY DEF Init, Serving
<1>3. ~SeedImpossible
  <2>1. CASE categories = 0
    <3>1. next.masters = 1 /\ next.orders = 1
      BY <2>1 DEF Init
    <3> QED
      BY <3>1 DEF SeedImpossible, UsedUp, Rows
  <2>2. CASE categories # 0
    BY <2>2 DEF SeedImpossible
  <2> QED
    BY <2>1, <2>2
<1>4. (categories > 0 /\ ~demoMaster) = FALSE
  BY <1>1, Zenon
<1>5. SeedImpossible = FALSE
  BY <1>3, Zenon DEF SeedImpossible
<1> QED
  BY <1>1, <1>2, <1>4, <1>5, Zenon DEF D!DeploymentInit

\* Steps between the promised ones: at most a seed is spoilt, a server begins
\* to serve, or it leaves.
LEMMA QuietRefines ==
    ASSUME IInv, IInv', NEW s \in Servers, UNCHANGED <<categories, demoMaster>>,
           \A o \in Servers \ {s} : pc'[o] = pc[o],
           SeedImpossible => SeedImpossible'
    PROVE  [D!DeploymentNext]_(D!deploymentVars)
<1> DEFINE loaded == categories > 0 /\ ~demoMaster
           serving == {o \in Servers : Serving(o)}
<1>1. loaded' = loaded
  BY Zenon
<1>2. \A o \in Servers \ {s} : Serving(o)' <=> Serving(o)
  BY DEF Serving
<1>3. CASE Serving(s)' <=> Serving(s)
  <2>1. serving' = serving
    BY <1>2, <1>3
  <2>2. CASE SeedImpossible' <=> SeedImpossible
    <3>1. SeedImpossible' = SeedImpossible
      BY <2>2, Zenon DEF SeedImpossible
    <3> QED
      BY <1>1, <2>1, <3>1, Zenon DEF D!deploymentVars
  <2>3. CASE ~SeedImpossible /\ SeedImpossible'
    <3>1. categories = 0
      BY <2>3 DEF SeedImpossible
    <3>2. SeedImpossible' = TRUE
      BY <2>3, Zenon
    <3>3. D!Spoil
      BY <1>1, <2>1, <2>3, <3>1, <3>2, Zenon DEF D!Spoil
    <3> QED
      BY <3>3, Zenon DEF D!DeploymentNext
  <2> QED
    BY <2>2, <2>3
<1>4. CASE ~(Serving(s)' <=> Serving(s))
  <2>1. categories = 1
    BY <1>4 DEF Serving, IInv, SeedInv, Seeder, Seeded
  <2>2. SeedImpossible' = SeedImpossible
    <3>1. ~SeedImpossible /\ ~SeedImpossible'
      BY <2>1 DEF SeedImpossible
    <3> QED
      BY <3>1, Zenon DEF SeedImpossible
  <2>3. CASE Serving(s)'
    <3>1. s \notin serving /\ serving' = serving \cup {s}
      BY <1>2, <1>4, <2>3
    <3>2. D!Serve(s)
      BY <1>1, <2>1, <2>2, <3>1, Zenon DEF D!Serve
    <3> QED
      BY <3>2, Zenon DEF D!DeploymentNext
  <2>4. CASE Serving(s)
    <3>1. s \in serving /\ serving' = serving \ {s}
      BY <1>2, <1>4, <2>4
    <3>2. D!Leave(s)
      BY <1>1, <2>2, <3>1, Zenon DEF D!Leave
    <3> QED
      BY <3>2, Zenon DEF D!DeploymentNext
  <2> QED
    BY <1>4, <2>3, <2>4
<1> QED
  BY <1>3, <1>4

\* The commit of a seed is the Seed of the promise.
LEMMA CommitRefines ==
    ASSUME IInv, NEW s \in Servers, CommitSeed(s)
    PROVE  D!Seed
<1> USE DEF schema, data, history
<1>1. /\ categories = 0 /\ 1 \in Sees(s, "orders") /\ Rows \subseteq Sees(s, "masters")
      /\ pc[s] = "commit"
  BY DEF CommitSeed, IInv, SeedInv, Seeder
<1>2. categories' = 1 /\ demoMaster' = TRUE
  BY <1>1 DEF CommitSeed
<1>3. ~SeedImpossible /\ ~SeedImpossible'
  BY <1>1, <1>2 DEF SeedImpossible, UsedUp
<1>4. SeedImpossible' = SeedImpossible
  BY <1>3, Zenon DEF SeedImpossible
<1>5. ~(categories > 0 /\ ~demoMaster) /\ ~(categories' > 0 /\ ~demoMaster')
  BY <1>1, <1>2
<1>6. (categories' > 0 /\ ~demoMaster') = (categories > 0 /\ ~demoMaster)
  BY <1>5, Zenon
<1>7. \A o \in Servers : Serving(o)' <=> Serving(o)
  BY <1>1 DEF CommitSeed, Goto, Serving, IInv, ServersOK
<1>8. {o \in Servers : Serving(o)}' = {o \in Servers : Serving(o)}
  BY <1>7
<1> QED
  BY <1>1, <1>2, <1>3, <1>4, <1>6, <1>8, Zenon DEF D!Seed

\* The commit of the tool is its Load.
LEMMA LoadRefines ==
    ASSUME NamedUntilLoaded, ToolCommit
    PROVE  D!Load
<1> USE DEF schema, data, history
<1>1. /\ tool = "load" /\ categories' = 1 /\ demoMaster' = FALSE
      /\ pc' = pc
  BY DEF ToolCommit
<1>2. ~(categories > 0 /\ ~demoMaster)
  BY <1>1 DEF NamedUntilLoaded, Loaded
<1>3. categories' > 0 /\ ~demoMaster'
  BY <1>1
<1>4. (categories' > 0 /\ ~demoMaster') = TRUE
  BY <1>3, Zenon
<1>5. ~SeedImpossible'
  BY <1>1 DEF SeedImpossible
<1>6. SeedImpossible' = FALSE
  BY <1>5, Zenon DEF SeedImpossible
<1>7. {o \in Servers : Serving(o)}' = {o \in Servers : Serving(o)}
  BY <1>1 DEF Serving
<1> QED
  BY <1>1, <1>2, <1>4, <1>6, <1>7, Zenon DEF D!Load

\* A step that moves nobody and touches no demonstration data spoils at most.
LEMMA StillRefines ==
    ASSUME UNCHANGED <<pc, categories, demoMaster>>, SeedImpossible => SeedImpossible'
    PROVE  [D!DeploymentNext]_(D!deploymentVars)
<1>1. (categories' > 0 /\ ~demoMaster') = (categories > 0 /\ ~demoMaster)
  BY Zenon
<1>2. {o \in Servers : Serving(o)}' = {o \in Servers : Serving(o)}
  BY DEF Serving
<1>3. CASE SeedImpossible' <=> SeedImpossible
  <2>1. SeedImpossible' = SeedImpossible
    BY <1>3, Zenon DEF SeedImpossible
  <2> QED
    BY <1>1, <1>2, <2>1, Zenon DEF D!deploymentVars
<1>4. CASE ~SeedImpossible /\ SeedImpossible'
  <2>1. categories = 0
    BY <1>4 DEF SeedImpossible
  <2>2. SeedImpossible' = TRUE
    BY <1>4, Zenon DEF SeedImpossible
  <2>3. D!Spoil
    BY <1>1, <1>2, <1>4, <2>1, <2>2, Zenon DEF D!Spoil
  <2> QED
    BY <2>3, Zenon DEF D!DeploymentNext
<1> QED
  BY <1>3, <1>4

\* Every step of servers and tool is a step of the promise or a stutter.
THEOREM Refinement == Spec => ImplementsDeployment
<1>1. ASSUME IInv, IInv', NamedUntilLoaded, [Next]_vars,
             [SeedImpossible => SeedImpossible' \/ ToolCommit]_vars
      PROVE  [D!DeploymentNext]_(D!deploymentVars)
  <2> USE DEF schema, data, history
  <2>1. ASSUME NEW s \in Servers, CommitSeed(s)
        PROVE  [D!DeploymentNext]_(D!deploymentVars)
    BY <1>1, <2>1, CommitRefines, Zenon DEF D!DeploymentNext
  <2>2. CASE ToolCommit
    BY <1>1, <2>2, LoadRefines, Zenon DEF D!DeploymentNext
  <2>3. CASE UNCHANGED vars
    <3>1. UNCHANGED <<dialect, pc, categories, demoMaster, next, mine, masters, orders>>
      BY <2>3 DEF vars
    <3>2. SeedImpossible => SeedImpossible'
      BY <3>1 DEF SeedImpossible, UsedUp, Sees
    <3> QED
      BY <3>1, <3>2, StillRefines
  <2>4. SeedImpossible => SeedImpossible' \/ ToolCommit \/ UNCHANGED vars
    BY <1>1
  <2>5. ASSUME NEW s \in Servers, Start(s) \/ Step(s) \/ OpenChat(s) \/ Stop(s),
               ~CommitSeed(s), ~ToolCommit, ~UNCHANGED vars
        PROVE  [D!DeploymentNext]_(D!deploymentVars)
    <3>1. UNCHANGED <<categories, demoMaster>>
      BY <2>5 DEF Start, Step, OpenChat, Stop, CreateTable, TablesDone, CheckColumn,
                  AddColumn, ColumnsDone, CountCategories, BeginSeed, InsertRow, LinkMaster,
                  InsertResponses, InsertDemoChat, UpsertUser, CheckDemoChat,
                  RestoreDemoChat, Exit
    <3>2. \A o \in Servers \ {s} : pc'[o] = pc[o]
      BY <1>1, <2>5, OneMoves DEF IInv, ServersOK
    <3> QED
      BY <1>1, <2>4, <2>5, <3>1, <3>2, QuietRefines
  <2>6. ASSUME Tool, ~ToolCommit, ~UNCHANGED vars
        PROVE  [D!DeploymentNext]_(D!deploymentVars)
    <3>1. UNCHANGED <<pc, categories, demoMaster>>
      BY <2>6 DEF Tool, ToolSchema, ToolTruncate, ToolFails
    <3> QED
      BY <2>4, <2>6, <3>1, StillRefines
  <2> QED
    BY <1>1, <2>1, <2>2, <2>3, <2>5, <2>6 DEF Next
<1> QED
  BY <1>1, InitRefines, Inductive, NamedInv, SpoiltSeedsStaySpoilt, PTL
     DEF Spec, ImplementsDeployment, D!DeploymentSpec, SpoiltForGood
==============================================================================
