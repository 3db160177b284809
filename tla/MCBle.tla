------------------------------- MODULE MCBle -------------------------------
(* Model checking of Ble.                                                    *)
EXTENDS Ble, TLC

MCConfigured == <<"temperature", "name", "disable">>
MCTypeOf == "temperature" :> "READ_PERIODIC" @@ "name" :> "READ_ONCE"
         @@ "disable" :> "WRITE_AT_EXIT" @@ "poll" :> "READ_PERIODIC"
         @@ "blink" :> "WRITE_ONCE" @@ "dark" :> "WRITE_AT_EXIT"
=============================================================================
