-------------------------- MODULE AccountRegistry --------------------------
(***************************************************************************)
(* The data of the multi-account registry: credentials, the rows of        *)
(* accounts.json and the pure operations of                                *)
(* codex-rs/login/src/auth/account_registry.rs on those rows.  A file      *)
(* access (load, save) is a step of the modules that use these operators.  *)
(*                                                                         *)
(* A credential is [acct, tok]: the account the record says it is for      *)
(* (tokens.account_id or the id-token claims) and the refresh token it     *)
(* carries.  A token names its true owner, so a record that mixes one      *)
(* account's identity with another account's token can be expressed.       *)
(* Labels, e-mail, timestamps and the access token travel with the record  *)
(* and no decision depends on them.                                        *)
(***************************************************************************)
EXTENDS Integers, Sequences

CONSTANTS
    Accounts,       \* the ChatGPT accounts the user may log in to
    HasAccountId,   \* those whose tokens carry a ChatGPT account id
    NoAuth,         \* no auth.json, or nothing cached
    ApiKeyAuth,     \* an API-key credential
    NoId            \* Option::None for an account id or registry id

Tokens == [owner : Accounts, n : Nat]
ChatgptAuths == [acct : Accounts, tok : Tokens]
Auths == ChatgptAuths \cup {NoAuth, ApiKeyAuth}
RegistryIds == {"account", "user"} \X Accounts
Rows == [id : RegistryIds, auth : ChatgptAuths]

ASSUME RegistryAssumption ==
    /\ HasAccountId \subseteq Accounts
    /\ NoAuth \notin ChatgptAuths /\ ApiKeyAuth \notin ChatgptAuths
    /\ NoAuth # ApiKeyAuth
    /\ NoId \notin Accounts /\ NoId \notin RegistryIds

----------------------------------------------------------------------------
IsChatgpt(auth) == auth \notin {NoAuth, ApiKeyAuth}

\* CodexAuth::get_account_id: the raw id, without the registry's prefix.
AccountIdOf(auth) ==
    IF IsChatgpt(auth) /\ auth.acct \in HasAccountId THEN auth.acct ELSE NoId

\* account_registry_id_for_auth: "account:<id>" when the tokens have an account
\* id, else a key made from the user claims.
RegistryIdFor(acct) ==
    IF acct \in HasAccountId THEN <<"account", acct>> ELSE <<"user", acct>>

RegistryIdOf(auth) == IF IsChatgpt(auth) THEN RegistryIdFor(auth.acct) ELSE NoId

RowFor(auth) == [id |-> RegistryIdFor(auth.acct), auth |-> auth]

Ids(rows) == {rows[i].id : i \in DOMAIN rows}

\* Iterator::find on the rows: the first index with the id.
IndexOf(rows, id) ==
    CHOOSE i \in DOMAIN rows :
        rows[i].id = id /\ \A j \in DOMAIN rows : j < i => rows[j].id # id

\* Mutant: push without looking for the id.
Upsert_AlwaysPushes(rows, auth) == Append(rows, RowFor(auth))

\* upsert_saved_chatgpt_account: replace in place, or push at the end.
Upsert(rows, auth) ==
    IF RegistryIdFor(auth.acct) \in Ids(rows)
    THEN [rows EXCEPT ![IndexOf(rows, RegistryIdFor(auth.acct))] = RowFor(auth)]
    ELSE Append(rows, RowFor(auth))

\* Mutant: the row's metadata is rewritten but not its credential.
UpdateIfExists_KeepsAuth(rows, auth) == rows

\* update_saved_chatgpt_account_if_exists: replace in place, never push.
UpdateIfExists(rows, auth) ==
    IF RegistryIdFor(auth.acct) \in Ids(rows)
    THEN [rows EXCEPT ![IndexOf(rows, RegistryIdFor(auth.acct))] = RowFor(auth)]
    ELSE rows

\* remove_saved_chatgpt_account's retain, on rows whose ids are distinct.
Retain(rows, id) ==
    IF id \in Ids(rows)
    THEN SubSeq(rows, 1, IndexOf(rows, id) - 1)
            \o SubSeq(rows, IndexOf(rows, id) + 1, Len(rows))
    ELSE rows

\* The entry switch_active_chatgpt_account restores.
SavedAuth(rows, id) == rows[IndexOf(rows, id)].auth

\* Mutant: only the rows behind the active one are tried.
Eligible_Behind(rows, exhausted, current) ==
    {i \in DOMAIN rows : rows[i].id \notin exhausted
        /\ \A j \in DOMAIN rows : rows[j].id = current => j < i}

\* rotate_to_next_saved_chatgpt_account's candidates, and the first of them.
Eligible(rows, exhausted, current) ==
    {i \in DOMAIN rows : rows[i].id \notin exhausted /\ rows[i].id # current}

NextEligible(rows, exhausted, current) ==
    CHOOSE i \in Eligible(rows, exhausted, current) :
        \A j \in Eligible(rows, exhausted, current) : i <= j

----------------------------------------------------------------------------
(* What every accounts.json must satisfy, whoever wrote it. *)

\* No two rows have the same id: find, retain and rotate would disagree.
UniqueIds(rows) ==
    \A i, j \in DOMAIN rows : rows[i].id = rows[j].id => i = j

\* A row restores the account it is filed under.
FiledUnderOwnId(rows) ==
    \A i \in DOMAIN rows : rows[i].id = RegistryIdFor(rows[i].auth.acct)

WellKeyed(rows) == UniqueIds(rows) /\ FiledUnderOwnId(rows)
=============================================================================
