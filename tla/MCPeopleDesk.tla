---------------------------- MODULE MCPeopleDesk ----------------------------
EXTENDS PeopleDesk, TLC
CONSTANTS a, b
SettingUp == [state |-> "active", job |-> "work"]
SetUpDone == [state |-> "active", job |-> "done"]
MCBeginnings == {(a :> SettingUp) @@ (b :> NoRow), (a :> SettingUp) @@ (b :> SetUpDone)}
MCTwo == {(a :> SettingUp) @@ (b :> NoRow)}
MCOne == {(a :> SettingUp)}
=============================================================================
