------------------------------ MODULE MCSpeech ------------------------------
(***************************************************************************)
(* The shipped scenario, a gate of three frames, and the inputs the pure   *)
(* functions are tried on.                                                 *)
(***************************************************************************)
EXTENDS Speech

Manifest(required, optional) ==
    [documents |-> 1, strict |-> TRUE, schema |-> "v1",
     scenario |-> [id |-> "welcome", version |-> "v1", required |-> required, optional |-> optional]]

\* configs/scenarios/anonymous-return-welcome.v1.yaml
Shipped == Manifest(<<Required("PERSON_PRESENCE", "desktop-presence"),
                      Required("VOICE_ACTIVITY", "desktop-vad"), Required("DISPLAY_TEXT", "web-avatar")>>,
                    <<Optional("FACE_IDENTIFICATION", "local-face-identity", "ANONYMOUS_SUBJECT"),
                      Optional("SPEAKER_IDENTIFICATION", "local-speaker-identity", "ANONYMOUS_SUBJECT"),
                      Optional("SPEECH_SYNTHESIS", "speech-dispatcher", "VISUAL_ONLY")>>)

MCScenario == Load(Shipped).requirements

Basics == {Required("VOICE_ACTIVITY", "p"), Required("FACE_DETECTION", "q"), Required("PERSON_PRESENCE", "p")}
Extras  == {Optional("FACE_IDENTIFICATION", "q", "ANONYMOUS_SUBJECT"),
            Optional("VOICE_ACTIVITY", "p", "NO_VOICE_REPLY"), Optional("SPEECH_SYNTHESIS", "q", "AUDIO_ONLY")}
Lists(S) == UNION {[1..n -> S] : n \in 0..2}

\* One or two entries in either order, duplicates, wrong fallbacks, nothing at
\* all, and a file that Load must refuse as a whole.
MCManifests ==
    {Manifest(r, o) : r \in Lists(Basics), o \in Lists(Extras)}
    \cup {[Shipped EXCEPT !.documents = 2], [Shipped EXCEPT !.strict = FALSE], [Shipped EXCEPT !.schema = "v2"],
          [Shipped EXCEPT !.scenario.version = ""], [Shipped EXCEPT !.scenario.version = "v2"], Shipped}

Provider(id, kinds, health, expires) ==
    [provider |-> id, instance |-> id, capabilities |-> kinds, health |-> health, expires |-> expires]

MCProviders ==
    {<<>>} \cup
    {<<Provider("p", <<"VOICE_ACTIVITY">>, h, 2), Provider("q", k, "HEALTHY", e)>> :
         h \in {"HEALTHY", "UNHEALTHY"}, e \in 1..2,
         k \in {<<"FACE_DETECTION", "FACE_IDENTIFICATION">>, <<"FACE_DETECTION", "FACE_DETECTION">>}}
MCPolicies ==
    {[enabled |-> b, authorized |-> a, enrolled |-> e] :
         b \in BOOLEAN, a \in {<<>>, <<"FACE_DETECTION">>, <<"FACE_IDENTIFICATION", "FACE_DETECTION">>},
         e \in {<<>>, <<"FACE_IDENTIFICATION">>}}

MCCases ==
    {[scenario |-> [id |-> "welcome", required |-> r, optional |-> o], providers |-> p, policy |-> q, now |-> t] :
         r \in Lists(Basics), o \in Lists(Extras), p \in MCProviders, q \in MCPolicies, t \in 1..2}

MCRecordings == UNION {[1..n -> BOOLEAN] : n \in 0..10}
=============================================================================
