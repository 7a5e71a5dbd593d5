---------------------------- MODULE SigningKeys ----------------------------
(***************************************************************************)
(* The registry's signing keys.  Every registry process that starts makes  *)
(* sure that a key exists: it looks, awaits the generation of a key pair   *)
(* and inserts it.  Processes that share the database may both find none.  *)
(* Keys are never removed: new tokens are signed with the newest, old ones *)
(* are verified with whichever fits.                                       *)
(***************************************************************************)
EXTENDS Integers, Sequences, SequencesExt

CONSTANTS
    Registries,  \* the processes that start on one database
    MaxTime      \* bound of the clock

ASSUME SigningKeysAssumption == MaxTime \in Nat

VARIABLES
    keys,   \* rows of table keys as they were inserted: when each was
    boot,   \* what each process is doing
    now

keyVars == <<keys, boot, now>>

\* getLatestKey: ORDER BY created_at DESC LIMIT 1
getLatestKey == Len(keys)

hasSigningKey == getLatestKey # 0

\* ensureSigningKey, until it awaits
Starts(r) ==
    /\ boot[r] = "down"
    /\ boot' = [boot EXCEPT ![r] = IF hasSigningKey THEN "up" ELSE "generating"]
    /\ UNCHANGED <<keys, now>>

\* ... and after: it does not look again.  Only then does the process serve.
KeyGenerated(r) ==
    /\ boot[r] = "generating"
    /\ boot' = [boot EXCEPT ![r] = "up"]
    /\ keys' = Append(keys, now)
    /\ UNCHANGED now

Serving == \E r \in Registries : boot[r] = "up"

\* The newest key is served first.
getJwks == Reverse([k \in 1..Len(keys) |-> k])

getAllPublicKeys == 1..Len(keys)

\* Any of the keys will do for the registry itself, but only for tokens that it
\* issued; jose refuses a token at the very second it expires.
verifyToken(t) == /\ t.signer \in getAllPublicKeys
                  /\ t.iss = "eigent-registry" /\ t.exp > now

KeysInit ==
    /\ keys = <<>>
    /\ boot = [r \in Registries |-> "down"]
    /\ now = 0
=============================================================================
