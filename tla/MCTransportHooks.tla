--------------------------- MODULE MCTransportHooks ---------------------------
(* TransportHooks with up to three plugins, loaded in several orders.       *)
EXTENDS TransportHooks

CONSTANTS p1, p2, p3

MCPlugins == {p1, p2, p3}
MCPluginLists == {<<>>, <<p1>>, <<p1, p2>>, <<p2, p1>>,
                  <<p3, p1, p2>>}
=============================================================================
