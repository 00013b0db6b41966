----------------------------- MODULE MCSynthState -----------------------------
(***************************************************************************)
(* Two accounts, which the datadir may hold already, as another kind of    *)
(* account or with another slot.                                           *)
(***************************************************************************)
EXTENDS SynthState

CONSTANTS a1, a2, s1, s2

MCAddr    == {a1, a2}
MCSlot    == {s1, s2}
MCAccount == {"eoa", "contract"}
MCDraws   == {0, 1}
MCValue   == 0..2

cfg(eoas, small, smallMax, large) ==
    [eoas |-> eoas, small |-> small, smallMax |-> smallMax, large |-> large]

MCConfigs == {cfg(1, 1, 2, <<>>), cfg(0, 1, 1, <<2>>), cfg(0, 2, 2, <<>>),
              cfg(0, 1, 0, <<1>>), cfg(1, 0, 0, <<0>>), cfg(2, 0, 0, <<>>)}

MCEarlier == {EmptyTables,
              [accounts |-> {<<a1, "eoa">>, <<a2, "contract">>},
               storages |-> {<<a2, s1, 1>>}]}

=============================================================================
