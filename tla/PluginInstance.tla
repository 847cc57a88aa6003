--------------------------- MODULE PluginInstance ---------------------------
(***************************************************************************)
(* One plug-in module as a host uses it: the entry is initialised, the     *)
(* factory creates an instance, whose constructor declares its ports, the  *)
(* host initialises, activates and starts it, and process() renders blocks *)
(* until it is stopped.  Plugin keeps no state for its life cycle: each    *)
(* call is handed to a hook of the plug-in's (onInit, onActivate ...), and *)
(* what it returns is what the host goes by.                               *)
(***************************************************************************)
EXTENDS MinimalEffect, PluginEntry, PluginPorts

VARIABLE life   \* what the host has brought the instance to

instanceVars == <<life, portVars, entryVars, sampleVars, effectVars>>
audioVars == <<sampleVars, effectVars>>

InstanceInit ==
  /\ life = "none"
  /\ PortsInit /\ EntryInit /\ EffectInit

\* createPlugin: refused without a host and for another plug-in's id, and
\* the constructor may throw.  Nothing asks whether the entry is initialised.
CreatePlugin(hostIsThere, idMatches, throws) ==
  /\ life = "none"
  /\ IF hostIsThere /\ idMatches /\ ~throws
     THEN life' = "created" /\ Declare
     ELSE UNCHANGED <<life, portVars>>
  /\ UNCHANGED <<entryVars, audioVars>>

\* The hook's result decides; reset() and on_main_thread() move nothing.
Forward(from, to, hookResult) ==
  /\ life = from
  /\ life' = IF hookResult THEN to ELSE from
  /\ UNCHANGED <<portVars, entryVars, audioVars>>

Init(hookResult) == Forward("created", "inactive", hookResult)
Activate(hookResult) == Forward("inactive", "active", hookResult)
StartProcessing(hookResult) == Forward("active", "processing", hookResult)

\* Between two blocks.
StopProcessing == Finished /\ Forward("processing", "active", TRUE)
Deactivate == Forward("active", "inactive", TRUE)

Destroy ==
  /\ life \in {"created", "inactive"}
  /\ life' = "none" /\ told' = Nothing /\ declared' = Nothing
  /\ UNCHANGED <<entryVars, audioVars>>

ReadPorts ==
  /\ life \in {"inactive", "active"}
  /\ ScanPorts
  /\ UNCHANGED <<life, entryVars, audioVars>>

Process ==
  /\ life = "processing"
  /\ EffectNext
  /\ UNCHANGED <<life, portVars, entryVars>>

EntryCall ==
  /\ EntryNext
  /\ UNCHANGED <<life, portVars, audioVars>>

InstanceNext ==
  \/ \E hostIsThere, idMatches, throws \in BOOLEAN :
       CreatePlugin(hostIsThere, idMatches, throws)
  \/ \E hookResult \in BOOLEAN :
       Init(hookResult) \/ Activate(hookResult) \/ StartProcessing(hookResult)
  \/ StopProcessing \/ Deactivate \/ Destroy
  \/ ReadPorts
  \/ Process
  \/ EntryCall

InstanceSpec == InstanceInit /\ [][InstanceNext]_instanceVars
-----------------------------------------------------------------------------
(* Properties. *)

(* Types, of the parts together. *)
InstanceTypeOK ==
  /\ life \in {"none", "created", "inactive", "active", "processing"}
  /\ buffers \in Buffers /\ gain \in 0 .. Len(input)
  /\ surfaced \in 0 .. Len(input) /\ Len(heard) \in 0 .. frames
  /\ declared \in Declarations \cup {Nothing}
  /\ refCount \in Nat /\ mutex \in Threads \cup {Nobody}
=============================================================================
