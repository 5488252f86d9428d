CONSTANTS
  main = main  init = init  idle = idle  p1 = p1  p2 = p2  p3 = p3
  Tasks <- MCTasks
  idle_thread = idle
  main_thread = main
  init_proc = init
  prio <- MCPrio
  MaxPid = 6
  MaxLeaks = 1
SPECIFICATION Spec
INVARIANTS NoPanic ParentAlive PidsUnique ExitNotMissed ListsAgree
SYMMETRY Pages
