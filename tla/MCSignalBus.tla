----------------------------- MODULE MCSignalBus -----------------------------
(* Three plugins for TLC: a GUI, a protocol with a thread, a sound player. *)
EXTENDS SignalBus
CONSTANTS gui, jabber, sound

MCPlugins   == {gui, jabber, sound}
MCModules   == <<jabber, gui, sound>>
MCKind      == (gui :> "UI") @@ (jabber :> "PROTOCOL") @@ (sound :> "MISC")
MCNames     == {"msg receive", "disconnected", "send message", "update config", "play", "nobody's"}
MCRegisters == (gui :> {"msg receive", "disconnected"})
               @@ (jabber :> {"send message", "update config"})
               @@ (sound :> {"play", "send message"})

To(p)       == [kind |-> "name", who |-> {p}]
Mask(ps)    == [kind |-> "mask", who |-> ps]
Everybody   == [kind |-> "all", who |-> MCPlugins]

Message     == [src |-> jabber, name |-> "msg receive", dest |-> To(gui), by |-> "main"]
Unknown     == [src |-> jabber, name |-> "nobody's", dest |-> To(gui), by |-> "main"]
Reply       == [src |-> gui, name |-> "send message", dest |-> To(jabber), by |-> "main"]
Configured  == [src |-> gui, name |-> "update config", dest |-> Everybody, by |-> "main"]
Play        == [src |-> gui, name |-> "play", dest |-> Mask({sound}), by |-> "main"]
Disconnect  == [src |-> jabber, name |-> "disconnected", dest |-> To(gui), by |-> "thread"]

MCEmissions       == {Message, Unknown, Configured, Play}
MCFullEmissions   == {Message, Reply, Configured}
MCWorkerEmissions == {Disconnect}

(* The runs whose threads wait for the main loop are orderly.              *)
ASSUME OrderlyConstants == ~EarlyWorkers /\ UnloadDepth <= 1 => Orderly
=============================================================================
