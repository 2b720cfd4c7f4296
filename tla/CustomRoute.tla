----------------------------- MODULE CustomRoute -----------------------------
(***************************************************************************)
(* The custom routes of the direct strategy as Redis keeps them            *)
(* (store/impl/impl.go), for one selector and one header value: the hashes *)
(* are keyed by both, and no operation touches two of them.                *)
(*                                                                         *)
(* The deadline is told apart by what the script does with it: "perm" is   *)
(* -1, "live" lies ahead, "past" has passed.  A header value without a     *)
(* deadline counts as "past" (existingDDL defaults to 1).                  *)
(***************************************************************************)
EXTENDS Naturals

CONSTANTS Endpoints,
          NoRoute,      \* nil: no endpoint, in the store and as an answer
          AllowExpiry,  \* callers pass a timeout, and time passes
          AllowRemove   \* RemoveCustomRoute is called

ASSUME NoRouteAssumption == NoRoute \notin Endpoints
ASSUME SwitchesAssumption == AllowExpiry \in BOOLEAN /\ AllowRemove \in BOOLEAN

VARIABLES route,  \* _end_point_ hash
          ddl     \* _ddl_ hash

storeVars == <<route, ddl>>

Timeouts == IF AllowExpiry THEN {"live", "perm"} ELSE {"perm"}

LuaNil == "nil"
LuaFalse == "false"   \* what HGET of a missing field gives the script

(* An endpoint is stored as ip#pod#port, never as one of these. *)
ASSUME LuaAssumption == LuaNil \notin Endpoints /\ LuaFalse \notin Endpoints

StoreInit == route = NoRoute /\ ddl = "past"

(***************************************************************************)
(* The script's variable existing: nil once a deadline has passed,         *)
(* otherwise the answer of HGET, which for a missing field is not nil.     *)
(***************************************************************************)
Existing_IgnoresPermanent ==
    IF ddl \in {"past", "perm"} THEN LuaNil ELSE IF route = NoRoute THEN LuaFalse ELSE route

Existing == IF ddl = "past" THEN LuaNil ELSE IF route = NoRoute THEN LuaFalse ELSE route

(* The script writes when existing is nil or the old value. *)
Inserts(old) == Existing = LuaNil \/ (old # NoRoute /\ Existing = old)

(***************************************************************************)
(* What Go returns: the script's string, or nil for success.  Redis turns  *)
(* both no value and false into a nil reply, so false reads as success.    *)
(***************************************************************************)
RealOld_AlwaysNil(old) == NoRoute

RealOld(old) == IF Inserts(old) \/ Existing = LuaFalse THEN NoRoute ELSE Existing

SetCustomRoute(endpoint, old, timeout) ==
    IF Inserts(old) THEN route' = endpoint /\ ddl' = timeout ELSE UNCHANGED storeVars

(* The deadline plays no part in a read; NoRoute is ErrNoCustomRoute. *)
GetCustomRoute_Raw == IF route = NoRoute THEN LuaFalse ELSE route

GetCustomRoute == route

(* HDEL of the endpoint: the deadline stays. *)
RemoveCustomRoute == route' = NoRoute /\ UNCHANGED ddl

Expire == ddl = "live" /\ ddl' = "past" /\ UNCHANGED route

StoreTypeOK == /\ route \in Endpoints \cup {NoRoute}
               /\ ddl \in {"past", "live", "perm"}
=============================================================================
