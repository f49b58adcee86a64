------------------------------- MODULE Migrations -------------------------------
(***************************************************************************)
(* The migrations of the database, which are run before the backend is     *)
(* started: db-migrate runs those that are not recorded, in the order of   *)
(* their dates, each in a transaction with its record. When one fails, or  *)
(* the process dies, it is rolled back and the command is given again.     *)
(***************************************************************************)
EXTENDS Naturals, Sequences

CONSTANTS
  files,        \* Seq of sets of ranges [from, to, place]: the INSERTs of each file
  Localhost, Substitute,   \* 127.0.0.1 and the address that stands for it
  MaxCrashes,   \* bound: how often each migration fails
  Nowhere       \* no location

Ranges == UNION {files[i] : i \in DOMAIN files}

(* No two ranges have an address in common. *)
ASSUME FilesAssumption ==
  /\ MaxCrashes \in Nat
  /\ Len(files) \in Nat /\ DOMAIN files = 1..Len(files)
  /\ \A r \in Ranges : r.from \in Nat /\ r.to \in Nat /\ r.from <= r.to
  /\ \A r, s \in Ranges : r = s \/ r.to < s.from \/ s.to < r.from

VARIABLES
  db,           \* what is committed: [schema, ranges, recorded]
  tx,           \* the migration under way: [db: what it sees, run: its statements so far]
  crashes

migrationVars == <<db, tx, crashes>>
NoTx == [run |-> 0]

(* The columns of a table: those that an INSERT has to name, and the rest. *)
Columns(required, optional) == [required |-> required, optional |-> optional]

CreateSchema == [
  asks |-> Columns({"message_id", "price"}, {"id", "expiry_length", "expires_at"}),
  blocks |-> Columns({"height", "miner", "parent_weight", "nonce", "ingested_at", "tipset_hash"},
                   {"parent_tipset_hashes"}),
  coin_circulation_stats |-> Columns({"coins_in_collateral", "total_coins", "ingested_at"}, {}),
  messages |-> Columns({"height", "tx_idx", "from_address", "to_address"},
                     {"id", "gas_price", "gas_limit", "value", "method", "params",
                      "tipset_hash", "nonce", "disambiguator_key"}),
  miner_counts |-> Columns({}, {"count", "calculated_at"}),
  miners |-> Columns({"miner_address"}, {"amount", "updated_at", "power"}),
  network_usage_stats |-> Columns({"calculated_at"}, {"total_committed_gb", "total_pledges_gb"}),
  token_address_stats |-> Columns({"unique_address_count", "average_holdings", "ingested_at"}, {}),
  unique_messages |-> Columns({}, {})]

CreateUniqueMessages(schema) ==
  [schema EXCEPT !.unique_messages =
     Columns({"id", "height", "tx_idx", "from_address", "to_address"},
           {"gas_price", "gas_limit", "value", "method", "params", "tipset_hash", "nonce"})]

KeepBlockNonce(schema) == schema       \* a mutant: the column is not dropped
RemoveBlockNonce(schema) ==
  [schema EXCEPT !.blocks.required = @ \ {"nonce"}]

MIGRATIONS ==
  <<"create-schema", "create-unique-messages", "add-block-height-index",
    "update-ask-expiry-len-type", "populate-ip-to-locations", "remove-block-nonce">>

Migrated == Len(db.recorded) = Len(MIGRATIONS)
Running == MIGRATIONS[Len(db.recorded) + 1]
Statements == IF Running = "populate-ip-to-locations" THEN Len(files) ELSE 1

Begin ==
  /\ ~ Migrated /\ tx = NoTx
  /\ tx' = [run |-> 0, db |-> db]
  /\ UNCHANGED <<db, crashes>>

(* db.runSql of a file of SQL. Those of the two other migrations create an *)
(* index and widen the column of a number.                                 *)
SchemaAfter(schema) ==
  CASE Running = "create-schema" -> CreateSchema
    [] Running = "create-unique-messages" -> CreateUniqueMessages(schema)
    [] Running = "remove-block-nonce" -> RemoveBlockNonce(schema)
    [] OTHER -> schema

(* migrateFile: the primary key refuses a range that is there. *)
RunSql ==
  /\ tx # NoTx /\ tx.run < Statements
  /\ IF Running = "populate-ip-to-locations"
       THEN /\ files[tx.run + 1] \cap tx.db.ranges = {}
            /\ tx' = [tx EXCEPT !.run = @ + 1, !.db.ranges = @ \cup files[tx.run + 1]]
       ELSE tx' = [tx EXCEPT !.run = @ + 1, !.db.schema = SchemaAfter(@)]
  /\ UNCHANGED <<db, crashes>>

Record ==
  /\ tx # NoTx /\ tx.run = Statements
  /\ db' = [tx.db EXCEPT !.recorded = Append(@, Running)]
  /\ tx' = NoTx
  /\ crashes' = 0

Fails ==
  /\ tx # NoTx /\ crashes < MaxCrashes
  /\ tx' = NoTx
  /\ crashes' = crashes + 1
  /\ UNCHANGED db

MigrationsInit ==
  /\ db = [schema |-> <<>>, ranges |-> {}, recorded |-> <<>>]
  /\ tx = NoTx /\ crashes = 0

Migrate == Begin \/ RunSql \/ Record

--------------------------------------------------------------------------------
(* GeolocationDAO.locateIp, with addresses by their number: the range with *)
(* the least end among those that begin at the address or later.           *)
NotBefore(r, n) == r.from >= n

LocateIp(ip) ==
  LET n == IF ip = Localhost THEN Substitute ELSE ip
      after == {r \in db.ranges : NotBefore(r, n)}
  IN  IF after = {} THEN Nowhere
      ELSE (CHOOSE r \in after : \A s \in after : r.to <= s.to).place

(* The INSERT statements of the backend. *)
Inserts == [
  blocks |-> {"height", "miner", "parent_weight", "ingested_at", "parent_tipset_hashes",
              "tipset_hash"},
  messages |-> {"height", "tipset_hash", "tx_idx", "gas_price", "gas_limit", "from_address",
                "to_address", "value", "method", "params", "nonce"},
  asks |-> {"message_id", "price", "expiry_length", "expires_at"},
  unique_messages |-> {"id", "height", "tx_idx", "gas_price", "gas_limit", "from_address",
                       "to_address", "value", "method", "params", "tipset_hash", "nonce"},
  miners |-> {"miner_address", "amount", "power", "updated_at"},
  coin_circulation_stats |-> {"coins_in_collateral", "total_coins", "ingested_at"},
  token_address_stats |-> {"unique_address_count", "average_holdings", "ingested_at"},
  network_usage_stats |-> {"total_committed_gb", "total_pledges_gb", "calculated_at"},
  miner_counts |-> {"count", "calculated_at"}]

(* The inductive invariant: what is committed is what the migrations that   *)
(* are recorded make, and the one under way has done its first statements. *)
Schemas ==
  LET created == CreateUniqueMessages(CreateSchema)
  IN  <<CreateSchema, created, created, created, created, RemoveBlockNonce(created)>>
SchemaOf(k) == IF k = 0 THEN <<>> ELSE Schemas[k]
RangesOf(k) == IF k >= 5 THEN Ranges ELSE {}

Recorded == Len(db.recorded)
Names == {MIGRATIONS[i] : i \in DOMAIN MIGRATIONS}

CommittedInv ==
  /\ db.recorded \in Seq(Names) /\ Recorded <= Len(MIGRATIONS)
  /\ db = [schema |-> SchemaOf(Recorded), ranges |-> RangesOf(Recorded),
           recorded |-> db.recorded]
UnderWayInv ==
  tx # NoTx =>
    /\ Recorded < Len(MIGRATIONS) /\ tx.run \in 0..Statements
    /\ tx = [run |-> tx.run,
             db |-> IF Running = "populate-ip-to-locations"
                      THEN [db EXCEPT !.ranges = UNION {files[i] : i \in 1..tx.run}]
                    ELSE IF tx.run = 0 THEN db
                    ELSE [db EXCEPT !.schema = SchemaOf(Recorded + 1)]]
MigrationInv == CommittedInv /\ UnderWayInv

(* Once all migrations are recorded, after however many that failed on the *)
(* way, every INSERT of the backend names the columns it has to and none   *)
(* that is not there, every range of every file can be looked up, and a    *)
(* heartbeat from the first address of a range is located in it.           *)
DatabaseFits ==
  Migrated =>
    /\ \A t \in DOMAIN Inserts :
         /\ db.schema[t].required \subseteq Inserts[t]
         /\ Inserts[t] \subseteq db.schema[t].required \cup db.schema[t].optional
    /\ db.ranges = Ranges
    /\ \A r \in db.ranges : r.from # Localhost => LocateIp(r.from) = r.place
================================================================================
