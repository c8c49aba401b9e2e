----------------------------- MODULE MCStation -----------------------------
(***************************************************************************)
(* The parts of the station that share no variable, in one run: in each    *)
(* behaviour one part moves and the others rest in their initial states.   *)
(* A property of one part depends on that part's variables alone, so       *)
(* interleaving the parts would add states and no new question.            *)
(***************************************************************************)
EXTENDS RemoteCommands, Outbox, PanelState, Maintenance, LocalList, ChargeEnergy,
        MeterLoop, Configuration, Firmware, InstanceRegistry, MeterRegister, Parameters,
        IncomingCalls, Screens, TLC

VARIABLE part    \* the part that moves

Parts == {"commands", "outbox", "panel", "board", "list", "meter", "loop", "config",
          "firmware", "registry", "register", "parameters", "incoming", "screens"}
stationVars ==
    <<part, commandVars, outboxVars, panelVars, boardVars, listVars, meterVars,
      loopVars, configVars, firmwareVars, registryVars, registerVars, parameterVars,
      incomingVars, screenVars>>

StationInit ==
    /\ part \in Parts
    /\ RemoteInit /\ OutboxInit /\ PanelInit /\ BoardInit /\ ListInit /\ MeterInit
    /\ LoopInit /\ ConfigInit /\ FirmwareInit /\ RegistryInit /\ RegisterInit /\ ParametersInit
    /\ IncomingInit /\ ScreensInit
    /\ part # "screens" => screen = "home"

CommandsMove ==
    /\ part = "commands" /\ RemoteNext
    /\ UNCHANGED <<part, outboxVars, panelVars, boardVars, listVars, meterVars, loopVars,
                   configVars, firmwareVars, registryVars, registerVars, parameterVars,
                   incomingVars, screenVars>>
OutboxMoves ==
    /\ part = "outbox" /\ OutboxNext
    /\ UNCHANGED <<part, commandVars, panelVars, boardVars, listVars, meterVars, loopVars,
                   configVars, firmwareVars, registryVars, registerVars, parameterVars,
                   incomingVars, screenVars>>
PanelMoves ==
    /\ part = "panel" /\ PanelNext
    /\ UNCHANGED <<part, commandVars, outboxVars, boardVars, listVars, meterVars, loopVars,
                   configVars, firmwareVars, registryVars, registerVars, parameterVars,
                   incomingVars, screenVars>>
BoardMoves ==
    /\ part = "board" /\ BoardNext
    /\ UNCHANGED <<part, commandVars, outboxVars, panelVars, listVars, meterVars, loopVars,
                   configVars, firmwareVars, registryVars, registerVars, parameterVars,
                   incomingVars, screenVars>>
ListMoves ==
    /\ part = "list" /\ ListNext
    /\ UNCHANGED <<part, commandVars, outboxVars, panelVars, boardVars, meterVars, loopVars,
                   configVars, firmwareVars, registryVars, registerVars, parameterVars,
                   incomingVars, screenVars>>
MeterMoves ==
    /\ part = "meter" /\ MeterNext
    /\ UNCHANGED <<part, commandVars, outboxVars, panelVars, boardVars, listVars, loopVars,
                   configVars, firmwareVars, registryVars, registerVars, parameterVars,
                   incomingVars, screenVars>>
LoopMoves ==
    /\ part = "loop" /\ LoopNext
    /\ UNCHANGED <<part, commandVars, outboxVars, panelVars, boardVars, listVars, meterVars,
                   configVars, firmwareVars, registryVars, registerVars, parameterVars,
                   incomingVars, screenVars>>
ConfigMoves ==
    /\ part = "config" /\ ConfigNext
    /\ UNCHANGED <<part, commandVars, outboxVars, panelVars, boardVars, listVars, meterVars,
                   loopVars, firmwareVars, registryVars, registerVars, parameterVars,
                   incomingVars, screenVars>>
FirmwareMoves ==
    /\ part = "firmware" /\ FirmwareNext
    /\ UNCHANGED <<part, commandVars, outboxVars, panelVars, boardVars, listVars, meterVars,
                   loopVars, configVars, registryVars, registerVars, parameterVars,
                   incomingVars, screenVars>>
RegistryMoves ==
    /\ part = "registry" /\ RegistryNext
    /\ UNCHANGED <<part, commandVars, outboxVars, panelVars, boardVars, listVars, meterVars,
                   loopVars, configVars, firmwareVars, registerVars, parameterVars,
                   incomingVars, screenVars>>
RegisterMoves ==
    /\ part = "register" /\ RegisterNext
    /\ UNCHANGED <<part, commandVars, outboxVars, panelVars, boardVars, listVars, meterVars,
                   loopVars, configVars, firmwareVars, registryVars, parameterVars,
                   incomingVars, screenVars>>
ParametersMove ==
    /\ part = "parameters" /\ ParametersNext
    /\ UNCHANGED <<part, commandVars, outboxVars, panelVars, boardVars, listVars, meterVars,
                   loopVars, configVars, firmwareVars, registryVars, registerVars,
                   incomingVars, screenVars>>
IncomingMoves ==
    /\ part = "incoming" /\ IncomingNext
    /\ UNCHANGED <<part, commandVars, outboxVars, panelVars, boardVars, listVars, meterVars,
                   loopVars, configVars, firmwareVars, registryVars, registerVars,
                   parameterVars, screenVars>>
ScreensMove ==
    /\ part = "screens" /\ ScreensNext
    /\ UNCHANGED <<part, commandVars, outboxVars, panelVars, boardVars, listVars, meterVars,
                   loopVars, configVars, firmwareVars, registryVars, registerVars,
                   parameterVars, incomingVars>>

StationNext ==
    \/ CommandsMove \/ OutboxMoves \/ PanelMoves \/ BoardMoves \/ ListMoves
    \/ MeterMoves \/ LoopMoves \/ ConfigMoves \/ FirmwareMoves \/ RegistryMoves
    \/ RegisterMoves \/ ParametersMove \/ IncomingMoves \/ ScreensMove

StationSpec == StationInit /\ [][StationNext]_stationVars

\* A period of a charging profile may begin before the transaction, with it or later.
PeriodStarts == {-1, 0, 2}

\* The handlers of each part are interchangeable, and so are the CALLs and the tags of the list.
Interchangeable == Permutations(Jobs) \cup Permutations(ListTags)
=============================================================================
