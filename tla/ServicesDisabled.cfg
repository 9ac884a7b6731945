SPECIFICATION Spec
CONSTANTS
  t1 = t1  t2 = t2  l1 = l1  c1 = c1  n1 = n1  web = web
  ip1 = ip1  ip2 = ip2  ip3 = ip3
  Task = {t1, t2, l1, c1}
  Local = {l1}
  Network = {n1}
  Service = {web}
  Ip = {ip1, ip2, ip3}
  NetOf <- TaskNet
  SvcOf <- TaskSvc
  IpOf <- TaskIp
  HasVip = {web}
  NoService = NoService  NoTask = NoTask  Vip = Vip
  MaxObjects = 4
  MaxFlaps = 1
INVARIANT DisabledRemoved
ACTION_CONSTRAINTS ReuseInOrder EnabledOnce NoneBetween CleanupAlone FewEvents
CHECK_DEADLOCK FALSE
