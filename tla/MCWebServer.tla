------------------------------- MODULE MCWebServer -------------------------------
EXTENDS WebServer

\* The four paths of the Core are alike but for the page "/"; a page, an action, a stream and the
\* realtime path share two paths, so that they may collide.
MCCorePaths == {"/", "/api/system"}
MCProductPaths == {"/a", "/b"}
==============================================================================
