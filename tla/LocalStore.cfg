\* Threads of one API process, and a worker beside two API processes.
SPECIFICATION FairSpec
CONSTANTS
    a1 = a1  a2 = a2  w1 = w1  j1 = j1  j2 = j2
    Jobs = {j1, j2}
    Kinds = {html}
    Processes = {a1, a2, w1}
    NoProcess = NoProcess
    Deployments <- OneProcessOrThree
    MaxFaults = 3
PROPERTIES
    KeepsLifecycle
    ToldDoesNotGoBack
    EveryReplicaLearns
