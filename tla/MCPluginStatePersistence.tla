----------------------- MODULE MCPluginStatePersistence -----------------------
\* Small instances of PluginStatePersistence for the model checker.
EXTENDS PluginStatePersistence
=============================================================================
