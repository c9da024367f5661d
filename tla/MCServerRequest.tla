--------------------------- MODULE MCServerRequest ---------------------------
(* Instances of ServerRequest for TLC. *)
EXTENDS ServerRequest, TLC

\* Two interfaces, so that the order of the list and the ids differ; only the
\* first one has properties.
McInterfaces == <<"Player", "Mixer">>
McMethods    == [Player |-> {"play"}, Mixer |-> {"mute", "play"}]
McProperties == [Player |-> {"volume"}, Mixer |-> {}]

Msg(i, m, a, p, ok) ==
    [interface |-> i, member |-> m, about |-> a, property |-> p, args_ok |-> ok]

\* One message of each kind that takes a path of its own through the skeleton.
McMessages ==
    {Msg("Player", "play", "", "", TRUE),
     Msg("Mixer", "mute", "", "", TRUE),
     Msg("Mixer", "mute", "", "", FALSE),
     Msg("Player", "mute", "", "", TRUE),
     Msg(DBusProperties, "Get", "Player", "volume", TRUE),
     Msg(DBusProperties, "GetAll", "Player", "", TRUE)}

\* The messages of McMessages that reach a method, and one that does not.
McMethodMessages ==
    {Msg("Player", "play", "", "", TRUE),
     Msg("Mixer", "mute", "", "", TRUE),
     Msg(DBusProperties, "GetAll", "Player", "", TRUE)}
=============================================================================
