---------------------------- MODULE MCLumaFirmware ----------------------------
EXTENDS LumaFirmware
\* Up to two calls of the drivers fail together: any two that turn channel 1 off, and others.
MCFaults == {{}, {<<1, "write">>, <<2, "write">>}, {<<1, "write">>, <<2, "stop">>},
             {<<2, "hold">>}, {<<1, "attach">>, <<1, "stop">>}, {<<2, "unhold">>, <<2, "write">>},
             {<<2, "write">>, <<2, "detach">>}, {<<2, "level">>}}
  \cup {{<<1, a>>, <<1, b>>} : a, b \in {"level", "write", "stop", "detach"}}
\* A day of a minute, one of five whose sixth stage is computed a second early, and a longer one.
MCPhotoperiods == {<<480, 481>>, <<0, 5>>, <<360, 480>>}
MCLights == {<<0, 10, 60, 100, 100, 40, 100, 0>>}
===============================================================================
