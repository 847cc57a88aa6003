----------------------------- MODULE StateReload -----------------------------
(***************************************************************************)
(* Plugin::stateLoad() and what the host knows.  A host reads the values   *)
(* once, and from then on trusts the events it sends and receives; a load  *)
(* rewrites values behind its back, record by record, on the main thread   *)
(* while the audio thread plays on.  Only at its end, and only if it has   *)
(* succeeded and the host has the params extension, is the host asked to   *)
(* read all values again.                                                  *)
(*                                                                         *)
(* The host reads within that call (paramsRescan).  Every other write is   *)
(* known to it at once: losing and overtaking events is GuiParameterSync's *)
(* matter.                                                                 *)
(***************************************************************************)
EXTENDS StateFile

VARIABLES canUseParams,  \* _host.canUseParams()
          hostValues,    \* what the host believes the values are
          leftBehind     \* ghost: the parameters that failed loads have restored
                         \* and of which the host has not learned since

hostVars == <<canUseParams, hostValues, leftBehind>>
reloadVars == <<vars, hostVars>>

ReloadInit ==
  /\ Init
  /\ canUseParams \in BOOLEAN
  /\ hostValues = base /\ leftBehind = {}

\* Automation, telemetry or the user's edit, at any moment of a save or a load.
Play(x, v) ==
  /\ base' = [base EXCEPT ![x] = v]
  /\ hostValues' = [hostValues EXCEPT ![x] = v]
  /\ leftBehind' = leftBehind \ {x}
  /\ UNCHANGED <<op, verdict, original, failed, saveVars, loadVars, canUseParams>>

\* Faulty variant: a state without a payload counts as loaded at once.
RescanIfPayload ==
  /\ LoadEnd
  /\ IF canUseParams /\ extraSize > 0
     THEN hostValues' = base /\ leftBehind' = {}
     ELSE UNCHANGED <<hostValues, leftBehind>>
  /\ UNCHANGED canUseParams

\* A host that has the params extension is asked to read all values again.
Rescan ==
  /\ LoadEnd
  /\ IF canUseParams
     THEN hostValues' = base /\ leftBehind' = {}
     ELSE UNCHANGED <<hostValues, leftBehind>>
  /\ UNCHANGED canUseParams

\* A load that fails leaves what it has restored, and nobody is told.
RestoredIds == {restored[i].id : i \in DOMAIN restored} \cap Kept
LoadGivesUp ==
  /\ Load \/ ReadFails
  /\ verdict' = "notLoaded"
  /\ leftBehind' = leftBehind \cup RestoredIds
  /\ UNCHANGED <<canUseParams, hostValues>>

LoadGoesOn ==
  /\ Load
  /\ op' # "idle"
  /\ UNCHANGED hostVars

StateCalls ==
  /\ \/ \E extra \in Extras : SaveBegin(extra)
     \/ \E stream \in {file} \cup ForeignFiles : LoadBegin(stream)
     \/ Save \/ WriteFails
  /\ UNCHANGED hostVars

ReloadNext ==
  \/ \E x \in Registered, v \in Values : Play(x, v)
  \/ StateCalls
  \/ LoadGoesOn \/ LoadGivesUp \/ Rescan

ReloadSpec == ReloadInit /\ [][ReloadNext]_reloadVars
-----------------------------------------------------------------------------
(* Properties. *)

(* Between calls, the values of which the host has an old picture are ones  *)
(* that failed loads have left behind: a load that succeeds makes up for    *)
(* all loads before it, whichever records it had, however it was split into *)
(* reads and whatever was played meanwhile.  (A host without the params     *)
(* extension is not asked, and keeps the picture it had.)                   *)
HostMissesOnlyFailedLoads ==
  op = "idle" /\ canUseParams =>
    \A x \in Registered : hostValues[x] # base[x] => x \in leftBehind
=============================================================================
