----------------------------- MODULE MCDevices -----------------------------
(***************************************************************************)
(* A small instance of Devices for TLC: two of everything.                 *)
(***************************************************************************)
EXTENDS Devices, TLC

MCTemp == {-10, 0, 25}
MCWord == {0, 290}
MCTimeOfDay == {<<1, 34>>}

(* The code of the first user, and one that is nobody's.                    *)
MCUserOf == [c \in {"1234", "9999"} |-> IF c = "1234" THEN 1 ELSE 0]

MCWatched ==
    {{"zone_temp", "keypad_temp", "current_temp"} \X Index,
     {<<"keypad_area", 0>>, <<"chime", 1>>} \cup {"press"} \X Index,
     {"mode", "hold", "fan", "cool_setpoint", "heat_setpoint"} \X {1},
     {<<"humidity", 0>>, <<"current_temp", 0>>},
     {"is_exit", "timer1", "timer2"} \X {1} \cup {"voltage"} \X Index,
     {"elkm1_version", "xep_version", "real_time_clock", "user_code_length",
      "temperature_units"} \X {0},
     {"setting"} \X Index,
     {<<"counter", 1>>, <<"last_log", 1>>, <<"weekday", 0>>} \cup {"task"} \X Index,
     {"alarm_memory", "definition", "zone_area"} \X Index,
     {"trouble"} \X {0, 1, 8, 32, 33}}
=============================================================================
