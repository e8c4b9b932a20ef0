----------------------------- MODULE WebStorage -----------------------------
(***************************************************************************)
(* The web storage extension                                               *)
(* (drivers/extension/webstorage/webstorageextension.cpp): one body for a  *)
(* key, written and read by any client of the WebSocket protocol.  Each    *)
(* statement commits by itself.  The key's column is declared STRING,      *)
(* which for SQLite means numeric affinity: keys that are spellings of one *)
(* number are the same key to the table.                                   *)
(***************************************************************************)
EXTENDS Naturals

CONSTANTS
    Keys,
    Spellings,      \* the keys that spell one number
    NoKey,          \* the empty key
    Bodies,
    NoBody,         \* the empty body
    MaxWrites       \* bound on the writes

ASSUME WebStorageAssumption ==
    /\ Spellings \subseteq Keys /\ NoKey \in Keys \ Spellings
    /\ NoBody \notin Bodies

VARIABLES
    rows,           \* web_data: the body of each stored key, NoBody without a row
    reply,          \* the status of the last write
    writes,
    latest          \* the last body some client was told is written (history)

webVars == <<rows, reply, writes, latest>>

(* The key as the table's column holds it.                                 *)
Column(key) == IF key \in Spellings THEN CHOOSE k \in Spellings : TRUE ELSE key

SameColumn(key) == {k \in Keys : Column(k) = Column(key)}

WebInit ==
    /\ rows = [key \in {Column(k) : k \in Keys} |-> NoBody]
    /\ reply = "Success"
    /\ writes = 0
    /\ latest = [key \in Keys |-> NoBody]

(* Mutant: an empty body is refused like an empty key.                     *)
WriteNothing(key, body) ==
    /\ writes < MaxWrites
    /\ writes' = writes + 1
    /\ reply' = "Success"
    /\ rows' = IF key = NoKey \/ body = NoBody THEN rows
               ELSE [rows EXCEPT ![Column(key)] = body]
    /\ latest' = [k \in Keys |-> IF k \in SameColumn(key) /\ key # NoKey
                                 THEN body ELSE latest[k]]

(* write_: no key is an invalid request, no body deletes the row; a query  *)
(* that fails is an error and changes nothing.                             *)
Write(key, body) ==
    /\ writes < MaxWrites
    /\ writes' = writes + 1
    /\ \/ /\ key = NoKey
          /\ reply' = "InvalidHeaders"
          /\ UNCHANGED <<rows, latest>>
       \/ /\ key # NoKey
          /\ reply' = "Success"
          /\ rows' = [rows EXCEPT ![Column(key)] = body]
          /\ latest' = [k \in Keys |-> IF k \in SameColumn(key) THEN body ELSE latest[k]]
       \/ /\ key # NoKey
          /\ reply' = "Error"
          /\ UNCHANGED <<rows, latest>>

(* read_, when its query succeeds: no row is an error.                     *)
Read(key) ==
    IF key = NoKey THEN [status |-> "InvalidHeaders", body |-> NoBody]
    ELSE [status |-> IF rows[Column(key)] = NoBody THEN "Error" ELSE "Success",
          body |-> rows[Column(key)]]

WebNext == \E key \in Keys, body \in Bodies \cup {NoBody} : Write(key, body)

WebSpec == WebInit /\ [][WebNext]_webVars
----------------------------------------------------------------------------
WebTypeOK ==
    /\ \A key \in DOMAIN rows : rows[key] \in Bodies \cup {NoBody}
    /\ reply \in {"Success", "Error", "InvalidHeaders"}

(* A read answers with the body of the last write that was reported as     *)
(* done, of any client and of any spelling of the key, and with an error   *)
(* exactly if that write was empty.                                        *)
ReadsLatest ==
    \A key \in Keys \ {NoKey} :
        /\ Read(key).body = latest[key]
        /\ (Read(key).status = "Error") <=> (latest[key] = NoBody)
=============================================================================
