--------------------------- MODULE MCWorkerProcess ----------------------------
EXTENDS WorkerProcess

\* Three languages, in the order of WORKER_LANGUAGES
ThreeLanguages == <<"python", "javascript", "cpp">>
=============================================================================
