-------------------------------- MODULE Tools --------------------------------
(***************************************************************************)
(* The crate's tools that stand alone.  They share no state and call none  *)
(* of each other, so a behaviour uses one of them, chosen at the start,    *)
(* and the states of the others never change.                              *)
(***************************************************************************)
EXTENDS TtlCell, Interval, EventMap, DataBuffer, SystemGuards, DataPolicyDerive

VARIABLE tool

vars == <<tool, now, ttlVars, intervalVars, eventVars, bufferVars, guardVars, enum>>

ToolNames == {"TtlCell", "Interval", "EventMap", "DataBuffer", "guards", "derive"}

Init ==
    /\ tool \in ToolNames
    /\ now = 0
    /\ TtlInit /\ (tool # "TtlCell" => value = Nothing)
    /\ IntervalInit /\ (tool # "Interval" => behavior = "Burst")
    /\ EventInit /\ BufferInit
    /\ GuardsInit /\ (tool # "guards" => kind = "config")
    /\ DeriveInit

Next ==
    /\ UNCHANGED tool
    /\ \/ /\ tool = "TtlCell" /\ TtlNext
          /\ UNCHANGED <<intervalVars, eventVars, bufferVars, guardVars, enum>>
       \/ /\ tool = "Interval" /\ IntervalNext
          /\ UNCHANGED <<ttlVars, eventVars, bufferVars, guardVars, enum>>
       \/ /\ tool = "EventMap" /\ EventNext
          /\ UNCHANGED <<now, ttlVars, intervalVars, bufferVars, guardVars, enum>>
       \/ /\ tool = "DataBuffer" /\ BufferNext
          /\ UNCHANGED <<now, ttlVars, intervalVars, eventVars, guardVars, enum>>
       \/ /\ tool = "guards" /\ GuardsNext
          /\ UNCHANGED <<now, ttlVars, intervalVars, eventVars, bufferVars, enum>>
       \/ /\ tool = "derive" /\ DeriveNext
          /\ UNCHANGED <<now, ttlVars, intervalVars, eventVars, bufferVars, guardVars>>

Spec == Init /\ [][Next]_vars

=============================================================================
