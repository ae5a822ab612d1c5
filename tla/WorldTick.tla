----------------------------- MODULE WorldTick ------------------------------
(***************************************************************************)
(* What World::Update promises about maps, as if there were no threads: in *)
(* a tick every loaded map is updated once, and maps are loaded, unloaded  *)
(* and given up only while none is being updated.                          *)
(***************************************************************************)
EXTENDS Naturals

CONSTANTS Continents, Instances, MaxTicks

VARIABLES now, loaded, done, phase

vars == <<now, loaded, done, phase>>

Init == now = 0 /\ loaded = Continents /\ done = {} /\ phase = "serial"

Begin ==
    /\ phase = "serial" /\ now < MaxTicks
    /\ now' = now + 1 /\ done' = {} /\ phase' = "maps"
    /\ UNCHANGED loaded

UpdateMap(m) ==
    /\ phase = "maps" /\ m \in loaded \ done
    /\ done' = done \cup {m}
    /\ UNCHANGED <<now, loaded, phase>>

End ==
    /\ phase = "maps" /\ done = loaded
    /\ phase' = "serial"
    /\ \E gone \in SUBSET (loaded \cap Instances) : loaded' = loaded \ gone
    /\ UNCHANGED <<now, done>>

Create(m) ==
    /\ phase = "serial" /\ m \notin loaded
    /\ loaded' = loaded \cup {m}
    /\ UNCHANGED <<now, done, phase>>

Close ==
    /\ phase = "serial"
    /\ phase' = "closed" /\ loaded' = {}
    /\ UNCHANGED <<now, done>>

Next ==
    \/ Begin \/ End \/ Close
    \/ \E m \in Continents \cup Instances : UpdateMap(m)
    \/ \E m \in Instances : Create(m)

Spec == Init /\ [][Next]_vars
=============================================================================
