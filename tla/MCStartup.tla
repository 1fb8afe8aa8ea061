----------------------------- MODULE MCStartup -----------------------------
(* Command lines with the configuration file before, after and without other *)
(* arguments, and files that set a key twice.                                *)
EXTENDS Startup

Set(k, v) == [opt |-> "set", key |-> k, val |-> v]
Just(o) == [opt |-> o]
MCCommandLines ==
    {<<Set("ssl", TRUE), Set("balancer", TRUE)>>,
     <<Set("auth", TRUE), Just("config")>>,
     <<Just("config"), Set("ssl", TRUE), Set("auth", TRUE)>>,
     <<Just("ignored"), Set("balancer", TRUE), Just("help")>>}
MCConfigFiles ==
    {NULL,
     <<Set("ssl", TRUE), Just("ignored"), Set("caching", TRUE), Set("balancer", FALSE)>>,
     <<Set("auth", FALSE), Set("ssl", TRUE), Set("caching", TRUE), Set("caching", FALSE)>>}
=============================================================================
