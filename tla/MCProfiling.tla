---------------------------- MODULE MCProfiling ----------------------------
EXTENDS Profiling

MCKinds == {<<"go", "go">>, <<"go", "jvm">>, <<"jvm", "go">>, <<"jvm", "jvm">>,
            <<"taken", "jvm">>, <<"jvm", "taken">>, <<"disabled", "go">>}

MCMaxAllocs == <<3, 2>>
=============================================================================
