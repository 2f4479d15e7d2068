SPECIFICATION SocketSpec
CONSTANTS
    Objects = {o1, o2, o3}
    Descriptors = {3, 4, 5}
    Absent = Absent
INVARIANT OneOwner NothingLeaks
