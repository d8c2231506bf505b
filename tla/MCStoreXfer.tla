---------------------------- MODULE MCStoreXfer ----------------------------
EXTENDS StoreXfer

CONSTANTS m1, m2

\* batches: each kind alone, and a put that shares its call with a delete
MCBatches == {<<"encoder">>, <<"decoder">>, <<"copier">>, <<"rebuilder">>,
              <<"eraser">>, <<"encoder", "eraser">>}
MCPutSizes == {<<2>>, <<1, 2>>, <<0, 1>>}
MCSources == {<<1>>, <<1, 2>>}
=============================================================================
